---- MODULE Spec2Model ----
(***************************************************************************)
(* fansMedalHelper: the retrying signed request client (src/src/api.py),   *)
(* the coin allocation run (src/src/services.py, CoinService) and the      *)
(* fleet run over the configured accounts (src/main.py, src/src/user.py).  *)
(*                                                                         *)
(* Nine specifications share the variables below:                          *)
(*   SpecRetry  one BiliApi and the calls made through it                  *)
(*   SpecCoin   one CoinService.coin_videos run against a remote           *)
(*   Spec       one FansMedalHelper.run over the configured accounts       *)
(*   SpecMedal  one account's medals, filtered, classified and reported    *)
(*   SpecUser   one account's start: its sub-tasks, interleaved            *)
(*   SpecLoop   one like, heartbeat or comment loop, request by request    *)
(*   SpecScan   one owner's video discovery, against any remote            *)
(*   SpecPager  one paginated medal fetch, page by page                    *)
(*   SpecGroup  one group sign-in loop                                     *)
(***************************************************************************)
EXTENDS Integers, Sequences, FiniteSets, TLC

VARIABLES
    \* ---- retry.wrapper / BiliApi (src/src/api.py)
    rpc,          \* position of the current call: idle, call, returned, raised
    req,          \* the request the current API method transmits
    count,        \* wrapper's local count of failed attempts
    isRetryable,  \* func.isRetryable
    trace,        \* attempts and sleeps of the current call, in order
    result,       \* the value returned to the caller
    raisedErr,    \* the exception raised to the caller
    \* ---- CoinService (src/src/services.py)
    cpc,          \* position of the allocation run
    config,       \* coin_remain, coin_max, coin_max_per_uid, coin_uid
    wallet,       \* remote: the account's coin balance
    multiply,     \* remote: coins already given to each video (-1: not yet observed)
    faults,       \* remote failures injected so far
    total_coins,  \* coin_videos: the queried balance
    max_coins,    \* coin_videos: the spendable amount
    disc,         \* _get_videos_for_coin/_get_videos_from_uid: loop state
    videos,       \* the discovered videos, each tagged with _coin_uid
    alloc,        \* _coin_videos: loop state, success_count, uid_coin_count, up_stats
    reqlog,       \* requests the run issued, in order
    coin_result,  \* what coin_videos returned
    \* ---- FansMedalHelper / BiliUser (src/main.py, src/src/user.py)
    fpc,          \* position of FansMedalHelper.run
    users_config, \* the configured account entries
    users,        \* initialize_users: the local list of constructed accounts
    current_users,\* self._current_users
    acct,         \* per configured entry: session, is_login, phase, report
    shutdown,     \* self._shutdown_event
    message_list, \* execute_tasks: the aggregated report
    cleanup_task, \* the _immediate_cleanup coroutine: none, scheduled, ran
    \* ---- MedalService / StatsService (src/src/services.py, stats_service.py)
    mpc,          \* position of the account between its medal fetches
    listing,      \* remote: the items getFansMedalandRoomID yields
    whiteList,    \* self.whiteList
    bannedList,   \* self.bannedList
    filtered,     \* what get_all_medals returned last
    user_medals,  \* self.medals, medalsNeedDo, medalsOthers, medalsLiving, medalsNoLiving
    snapshots,    \* the lists the account held after each get_medals
    report,       \* the medal statistics lines of the report
    \* ---- BiliUser.start (src/src/user.py) and its services
    upc,          \* position of the account: start, coin, gather, ..., reported
    ucfg,         \* what the account's start works on
    task,         \* per sub-task: status and loop position
    ufaults,      \* remote failures injected so far
    token_seen,   \* a sub-task call has failed with TOKEN_ERROR
    requested_after_token, \* a sub-task call was issued after that
    \* ---- LikeService, HeartbeatService, DanmakuService (src/src/services.py)
    service,      \* the service whose execute() runs
    lmedals,      \* the medals it was handed, by target_id
    lcfg,         \* the ASYNC and WEARMEDAL settings
    lpos,         \* the loop: running, done or failed, at which medal and round
    llog,         \* the requests the loop issued, in order, with their answers
    success_count,\* send_danmaku_to_medals: the medals whose comments all went out
    \* ---- CoinService._get_videos_from_uid against any remote
    ceiling,      \* the coin_max_per_uid it was called with
    scan,         \* its locals: page, available_videos, the page being checked
    scanlog,      \* the listing requests it issued, in order, with their answers
    kept,         \* the videos it returned
    \* ---- BiliApi.getFansMedalandRoomID (src/src/api.py)
    pager,        \* the generator: position, params["page"], first_flag
    fetched,      \* remote: the pages it was answered, in order
    yielded,      \* the items it yielded, in order
    \* ---- GroupService.sign_in_groups (src/src/services.py)
    gpc,          \* position of the sign-in loop
    SIGNINGROUP,  \* the setting of that name
    groups,       \* remote: the membership listing
    gi,           \* the group the loop is at
    glog,         \* the requests the loop issued, in order, with their answers
    group_count   \* sign_in_groups: its success_count

retryVars == <<rpc, req, count, isRetryable, trace, result, raisedErr>>
coinVars  == <<cpc, config, wallet, multiply, faults, total_coins, max_coins,
               disc, videos, alloc, reqlog, coin_result>>
fleetVars == <<fpc, users_config, users, current_users, acct, shutdown,
               message_list, cleanup_task>>
medalVars == <<mpc, listing, whiteList, bannedList, filtered, user_medals,
               snapshots, report>>
userVars  == <<upc, ucfg, task, ufaults, token_seen, requested_after_token>>
loopVars  == <<service, lmedals, lcfg, lpos, llog, success_count>>
scanVars  == <<ceiling, scan, scanlog, kept>>
pagerVars == <<pager, fetched, yielded>>
groupVars == <<gpc, SIGNINGROUP, groups, gi, glog, group_count>>
vars      == <<retryVars, coinVars, fleetVars, medalVars, userVars, loopVars,
               scanVars, pagerVars, groupVars>>

Min(a, b) == IF a < b THEN a ELSE b

Range(s) == {s[i] : i \in 1..Len(s)}

(***************************************************************************)
(* BiliConstants.ErrorCodes and the retry decorator's defaults             *)
(***************************************************************************)
TOKEN_ERROR == 1011040
RATE_LIMIT == 10030
SERVER_ERROR == 0 - 504
tries == 3
interval == 1
RateLimitSleep == 10

\* Remote status codes that have no branch of their own in the wrapper.
OtherCodes == {0 - 400, 1}
Codes == {0, TOKEN_ERROR, RATE_LIMIT, SERVER_ERROR} \cup OtherCodes

\* Payloads the remote answers with.
DataValues == {"d1", "d2"}

\* message: "" (none), "err" (some text), "dup" (text containing 已经发送过)
Messages == {"", "err", "dup"}

\* What one HTTP exchange yields: a JSON body, or an exception of the
\* transport (timeout, connection reset) that is no BiliApiError.
Responses ==
    [kind : {"json"}, code : Codes, mode_info : BOOLEAN,
     message : {"", "err"}, data : DataValues]
    \cup {[kind |-> "exc", code |-> 0, mode_info |-> FALSE,
           message |-> "", data |-> "d1"]}

BiliApiError(code, message, n) ==
    [type |-> "BiliApiError", code |-> code, message |-> message, id |-> n]

TransportError(n) ==
    [type |-> "Exception", code |-> 0, message |-> "", id |-> n]

NoError == [type |-> "none", code |-> 0, message |-> "", id |-> 0]
NoResult == "none"

\* BiliApi._check_response; n identifies the exception object created.
_check_response(resp, n) ==
    IF resp.code # 0 \/ (resp.mode_info /\ resp.message # "")
    THEN [raised |-> TRUE, err |-> BiliApiError(resp.code, resp.message, n),
          value |-> NoResult]
    ELSE [raised |-> FALSE, err |-> NoError, value |-> resp.data]

\* BiliApi._get / BiliApi._post: one execution of the wrapped function.
func(resp, n) ==
    IF resp.kind = "exc"
    THEN [raised |-> TRUE, err |-> TransportError(n), value |-> NoResult]
    ELSE _check_response(resp, n)

(***************************************************************************)
(* The requests the API methods transmit.  A parameter set is modelled by  *)
(* its keys; params travel in the query string, data in the body.          *)
(***************************************************************************)
Common == {"access_key", "actionKey", "appkey"}

\* SignableDict(params).signed: the parameters with the digest appended.
signed(p) == p \cup {"sign"}

Request(api, verb, params, data) ==
    [api |-> api, verb |-> verb, params |-> params, data |-> data]

NoRequest == Request("none", "none", {}, {})

getFansMedalandRoomID ==
    Request("getFansMedalandRoomID", "get",
            signed(Common \cup {"ts", "page", "page_size"}), {})

likeInteract ==
    Request("likeInteract", "post", {},
            signed(Common \cup {"click_time", "roomid"}))

likeInteractV3 ==
    Request("likeInteractV3", "post", {},
            signed(Common \cup {"click_time", "room_id", "anchor_id", "uid"}))

shareRoom ==
    Request("shareRoom", "post", {},
            signed(Common \cup {"ts", "interact_type", "roomid"}))

sendDanmaku ==
    Request("sendDanmaku", "session.post", signed(Common \cup {"ts"}),
            {"cid", "msg", "rnd", "color", "fontsize"})

loginVerift ==
    Request("loginVerift", "get", signed(Common \cup {"ts"}), {})

getUserInfo ==
    Request("getUserInfo", "get", signed(Common \cup {"ts"}), {})

getMedalsInfoByUid ==
    Request("getMedalsInfoByUid", "get",
            signed(Common \cup {"ts", "target_id"}), {})

heartbeat ==
    Request("heartbeat", "post", {},
            signed(Common \cup
                   {"platform", "uuid", "buvid", "seq_id", "room_id",
                    "parent_id", "area_id", "timestamp", "secret_key",
                    "watch_time", "up_id", "up_level", "jump_from", "gu_id",
                    "play_type", "play_url", "s_time", "data_behavior_id",
                    "data_source_id", "up_session", "visit_id",
                    "watch_status", "click_id", "session_id", "player_type",
                    "client_ts", "client_sign", "ts"}))

wearMedal ==
    Request("wearMedal", "post", {}, signed(Common \cup {"ts", "medal_id"}))

getGroups ==
    Request("getGroups", "get", signed(Common \cup {"ts"}), {})

signInGroups ==
    Request("signInGroups", "get", signed(Common \cup {"ts"}), {})

getOneBattery ==
    Request("getOneBattery", "post", {}, signed(Common \cup {"ts"}))

getVideoCoinsStatus ==
    Request("getVideoCoinsStatus", "get", Common \cup {"ts", "aid"}, {})

coinVideo ==
    Request("coinVideo", "post", {},
            Common \cup {"aid", "multiply", "select_like", "ts"})

getUserVideoUploaded ==
    Request("getUserVideoUploaded", "get",
            signed(Common \cup {"vmid", "order", "ps", "build", "ts", "aid"}),
            {})

getMyInfo ==
    Request("getMyInfo", "get", signed(Common \cup {"ts"}), {})

\* The methods that go through the decorated _get/_post.
WrappedRequests ==
    {getFansMedalandRoomID, likeInteract, likeInteractV3, shareRoom,
     loginVerift, getUserInfo, getMedalsInfoByUid, heartbeat, wearMedal,
     getGroups, signInGroups, getOneBattery, getVideoCoinsStatus, coinVideo,
     getUserVideoUploaded, getMyInfo}

(***************************************************************************)
(* retry(tries=3, interval=1): the wrapper around _get and _post           *)
(***************************************************************************)
AttemptEv(out) ==
    [ev |-> "attempt", err |-> out.err, value |-> out.value, secs |-> 0]

SleepEv(secs) ==
    [ev |-> "sleep", err |-> NoError, value |-> NoResult, secs |-> secs]

\* The branch the wrapper takes on exception e (api.py 32-40): raise at
\* once, sleep the rate-limit cooldown, or fall through to the count check.
ErrorAction_TokenRetried(e) ==
    IF e.type # "BiliApiError" THEN "pass"
    ELSE IF e.code = TOKEN_ERROR THEN "pass"
    ELSE IF e.code = RATE_LIMIT THEN "cooldown"
    ELSE IF e.code = SERVER_ERROR THEN "pass"
    ELSE "raise"

ErrorAction_NoCooldown(e) ==
    IF e.type # "BiliApiError" THEN "pass"
    ELSE IF e.code = TOKEN_ERROR THEN "raise"
    ELSE IF e.code = RATE_LIMIT THEN "pass"
    ELSE IF e.code = SERVER_ERROR THEN "pass"
    ELSE "raise"

ErrorAction_OtherRetried(e) ==
    IF e.type # "BiliApiError" THEN "pass"
    ELSE IF e.code = TOKEN_ERROR THEN "raise"
    ELSE IF e.code = RATE_LIMIT THEN "cooldown"
    ELSE "pass"

ErrorAction(e) ==
    IF e.type # "BiliApiError" THEN "pass"
    ELSE IF e.code = TOKEN_ERROR THEN "raise"
    ELSE IF e.code = RATE_LIMIT THEN "cooldown"
    ELSE IF e.code = SERVER_ERROR THEN "pass"
    ELSE "raise"

\* api.py 42: the attempt budget is used up.
BudgetExhausted_OneMore(c) == c > tries + 1

BudgetExhausted(c) == c > tries

Attempts == Len(SelectSeq(trace, LAMBDA x : x.ev = "attempt"))

\* A caller invokes an API method that goes through _get/_post: the wrapper
\* starts (api.py 22-24).
Call(r) ==
    /\ rpc \in {"idle", "returned", "raised"}
    /\ rpc' = "call"
    /\ req' = r
    /\ count' = 0
    /\ isRetryable' = FALSE
    /\ trace' = <<>>
    /\ result' = NoResult
    /\ raisedErr' = NoError
    /\ UNCHANGED <<coinVars, fleetVars, medalVars, userVars, loopVars,
                   scanVars, pagerVars, groupVars>>

\* One iteration of the wrapper's loop (api.py 26-51): the request is
\* transmitted, and on failure the wrapper raises or sleeps and loops.
wrapper(resp) ==
    /\ rpc = "call"
    /\ LET out == func(resp, Attempts + 1)
           t1  == Append(trace, AttemptEv(out))
           act == ErrorAction(out.err)
           t2  == IF act = "cooldown"
                  THEN Append(t1, SleepEv(RateLimitSleep)) ELSE t1
       IN  IF ~out.raised
           THEN /\ rpc' = "returned"
                /\ result' = out.value
                /\ trace' = t1
                /\ UNCHANGED <<count, isRetryable, raisedErr>>
           ELSE /\ count' = count + 1
                /\ result' = result
                /\ IF act = "raise"
                   THEN /\ rpc' = "raised"
                        /\ raisedErr' = out.err
                        /\ trace' = t1
                        /\ isRetryable' = isRetryable
                   ELSE IF BudgetExhausted(count + 1)
                   THEN /\ rpc' = "raised"
                        /\ raisedErr' = out.err
                        /\ trace' = t2
                        /\ isRetryable' = isRetryable
                   ELSE /\ rpc' = "call"
                        /\ raisedErr' = raisedErr
                        /\ trace' = Append(t2, SleepEv(interval))
                        /\ isRetryable' = TRUE
    /\ req' = req
    /\ UNCHANGED <<coinVars, fleetVars, medalVars, userVars, loopVars,
                   scanVars, pagerVars, groupVars>>

\* What the comment endpoint answers: here mode_info is a field of the body
\* itself and the message may name the duplicate-comment condition.
DanmakuResponses ==
    [kind : {"json"}, code : Codes, mode_info : BOOLEAN,
     message : Messages, data : {"d1"}]
    \cup {[kind |-> "exc", code |-> 0, mode_info |-> FALSE,
           message |-> "", data |-> "d1"]}

\* BiliApi.sendDanmaku (api.py 177-224): what one call returns or raises.
\* It posts on the session directly, not through _post.
sendDanmakuOutcome(resp) ==
    IF resp.kind = "exc"
    THEN [raised |-> TRUE, value |-> NoResult,
          err |-> BiliApiError(0 - 1, "err", 1)]
    ELSE IF resp.mode_info
    THEN [raised |-> FALSE, value |-> "content", err |-> NoError]
    ELSE IF resp.code = 0
    THEN [raised |-> FALSE, value |-> "sent", err |-> NoError]
    ELSE IF resp.message = "dup"
    THEN [raised |-> FALSE, value |-> "duplicate", err |-> NoError]
    ELSE [raised |-> TRUE, value |-> NoResult,
          err |-> BiliApiError(resp.code, resp.message, 1)]

SendDanmaku(resp) ==
    /\ rpc \in {"idle", "returned", "raised"}
    /\ LET out == sendDanmakuOutcome(resp)
       IN  /\ rpc' = IF out.raised THEN "raised" ELSE "returned"
           /\ result' = out.value
           /\ raisedErr' = out.err
           /\ trace' = <<AttemptEv(out)>>
    /\ req' = sendDanmaku
    /\ count' = 0
    /\ isRetryable' = FALSE
    /\ UNCHANGED <<coinVars, fleetVars, medalVars, userVars, loopVars,
                   scanVars, pagerVars, groupVars>>

(***************************************************************************)
(* CoinService: the allocation run                                         *)
(***************************************************************************)
\* Bounds of the modelled remote and of the configurations tried.
MaxBalance == 3
VideosPerOwner == 2
MaxFaults == 1

Owners == {1, 2}

\* _get_videos_from_uid: items wanted when no per-owner ceiling is set, the
\* page cap, the page size.
DefaultTargetCount == 5
max_pages == 5
ps == 20
\* The platform's ceiling of coins per video.
PlatformMax == 2

\* Remote: the videos owner uid has uploaded, newest first; owner 2 has
\* VideosPerOwner of them, owner 1 one fewer.
Listing(uid) == [k \in 1..(VideosPerOwner + uid - 2) |-> uid * 10 + k]

Aids == UNION {Range(Listing(u)) : u \in Owners}

\* Configurations tried.  coin_uid is the comma-separated list as a sequence
\* of its entries (0 stands for an entry '0' or an empty one).
CoinUidConfigs ==
    {<<>>, <<0>>, <<1>>, <<2, 1>>, <<1, 1>>}

ListConfigs ==
    {[white |-> <<0>>, banned |-> <<0>>],
     [white |-> <<0>>, banned |-> <<2>>],
     [white |-> <<2>>, banned |-> <<0>>]}

CoinRemains == {0, 1}
CoinMaxes == {0, 2}
CoinMaxPerUids == {0, 1, 2}

NoCoinResult == [success_count |-> 0 - 1, total_coins |-> 0 - 1, up_stats |-> <<>>]

CoinResult(n, total, stats) ==
    [success_count |-> n, total_coins |-> total, up_stats |-> stats]

\* One request of the run, as logged: level is the spend level a status
\* query answered (for a spend request: the level queried just before).
Req(api, uid, aid, amount, level, ok) ==
    [api |-> api, uid |-> uid, aid |-> aid, amount |-> amount,
     level |-> level, ok |-> ok]

\* CoinService._parse_coin_uids
_parse_coin_uids(coin_uid_config) ==
    SelectSeq(coin_uid_config, LAMBDA u : u # 0)

\* CoinService._get_coin_target_uids
_get_coin_target_uids(cfg) ==
    LET coin_uids == _parse_coin_uids(cfg.coin_uid)
    IN  IF cfg.white_list = <<0>>
        THEN SelectSeq(coin_uids, LAMBDA u : u \notin Range(cfg.banned_list))
        ELSE SelectSeq(coin_uids, LAMBDA u : u \in Range(cfg.white_list))

\* coin_videos 400-404: the spendable amount.
MaxCoins(total, cfg) ==
    IF cfg.coin_max > 0
    THEN Min(total - cfg.coin_remain, cfg.coin_max)
    ELSE total - cfg.coin_remain

\* coin_videos 395-408: the run stops before discovery.
NothingSpendable_ZeroBalance(total, cfg) == total <= 0

NothingSpendable(total, cfg) ==
    \/ total <= cfg.coin_remain
    \/ MaxCoins(total, cfg) <= 0

\* _get_videos_from_uid 467
TargetCount_PageSize(coin_max_per_uid) ==
    IF coin_max_per_uid > 0 THEN coin_max_per_uid ELSE ps

TargetCount(coin_max_per_uid) ==
    IF coin_max_per_uid > 0 THEN coin_max_per_uid ELSE DefaultTargetCount

NewDisc(targets, i) ==
    [targets |-> targets, i |-> i, stage |-> "name", page |-> 0,
     last_aid |-> 0, available |-> <<>>, pending |-> <<>>]

NewAlloc ==
    [g |-> 1, j |-> 1, success_count |-> 0,
     uid_coin_count |-> <<>>, up_stats |-> <<>>]

\* dict.get(key, 0)
Get(d, key) == IF key \in DOMAIN d THEN d[key] ELSE 0

\* d[key] = value
Put_KeepsFirst(d, key, value) ==
    IF key \in DOMAIN d THEN d
    ELSE [k \in DOMAIN d \cup {key} |-> IF k = key THEN value ELSE d[k]]

Put(d, key, value) ==
    [k \in DOMAIN d \cup {key} |-> IF k = key THEN value ELSE d[k]]

\* coin_videos 375-410, up to the call of _get_videos_for_coin.
coin_videos ==
    /\ cpc = "start"
    /\ IF config.coin_uid = <<>>
       THEN /\ coin_result' = CoinResult(0, 0, <<>>)
            /\ cpc' = "done"
            /\ UNCHANGED <<total_coins, max_coins, disc, reqlog, faults>>
       ELSE \E ok \in BOOLEAN :
            /\ ok \/ faults < MaxFaults
            /\ faults' = IF ok THEN faults ELSE faults + 1
            /\ reqlog' = Append(reqlog, Req("getMyInfo", 0, 0, 0, 0, ok))
            /\ IF ~ok
               THEN /\ coin_result' = CoinResult(0, 0, <<>>)
                    /\ cpc' = "done"
                    /\ UNCHANGED <<total_coins, max_coins, disc>>
               ELSE /\ total_coins' = wallet
                    /\ IF NothingSpendable(wallet, config)
                       THEN /\ coin_result' = CoinResult(0, wallet, <<>>)
                            /\ cpc' = "done"
                            /\ UNCHANGED <<max_coins, disc>>
                       ELSE /\ max_coins' = MaxCoins(wallet, config)
                            /\ disc' = NewDisc(_get_coin_target_uids(config), 1)
                            /\ cpc' = "discover"
                            /\ coin_result' = coin_result
    /\ UNCHANGED <<config, wallet, multiply, videos, alloc>>
    /\ UNCHANGED <<retryVars, fleetVars, medalVars, userVars, loopVars,
                   scanVars, pagerVars, groupVars>>

SubSeqFrom(sq, n) == IF n > Len(sq) THEN <<>> ELSE SubSeq(sq, n, Len(sq))

Take(sq, n) == SubSeq(sq, 1, Min(n, Len(sq)))

IndexOf(sq, x) == CHOOSE k \in 1..Len(sq) : sq[k] = x

\* Remote: the items of uid's listing after the cursor last_aid (0: none).
Remaining(uid, last_aid) ==
    IF last_aid = 0 THEN Listing(uid)
    ELSE SubSeqFrom(Listing(uid), IndexOf(Listing(uid), last_aid) + 1)

DiscUid == disc.targets[disc.i]

\* _get_videos_from_uid 489: the page loop goes on.
MorePages_NoPageCap(d, target_count) == Len(d.available) < target_count

MorePages(d, target_count) ==
    Len(d.available) < target_count /\ d.page < max_pages

\* _get_videos_from_uid 477-487: the listing request that resolves the
\* owner's display name; its failure is swallowed.
LookupName ==
    /\ cpc = "discover"
    /\ disc.i <= Len(disc.targets)
    /\ disc.stage = "name"
    /\ disc' = [disc EXCEPT !.stage = "pages"]
    /\ reqlog' = Append(reqlog, Req("getUserVideoUploaded", DiscUid, 0, 0, 0, TRUE))
    /\ UNCHANGED <<cpc, config, wallet, multiply, faults, total_coins,
                   max_coins, videos, alloc, coin_result>>
    /\ UNCHANGED <<retryVars, fleetVars, medalVars, userVars, loopVars,
                   scanVars, pagerVars, groupVars>>

\* _get_videos_from_uid 489-505 and 531-533: one listing page is requested.
FetchPage ==
    /\ cpc = "discover"
    /\ disc.i <= Len(disc.targets)
    /\ disc.stage = "pages"
    /\ disc.pending = <<>>
    /\ MorePages(disc, TargetCount(config.coin_max_per_uid))
    /\ LET rest == Remaining(DiscUid, disc.last_aid)
       IN  \/ /\ faults < MaxFaults
              /\ faults' = faults + 1
              /\ reqlog' = Append(reqlog,
                     Req("getUserVideoUploaded", DiscUid, disc.last_aid, 0, 0, FALSE))
              /\ disc' = [disc EXCEPT !.page = @ + 1, !.stage = "end"]
           \/ /\ rest = <<>>
              /\ faults' = faults
              /\ reqlog' = Append(reqlog,
                     Req("getUserVideoUploaded", DiscUid, disc.last_aid, 0, 0, TRUE))
              /\ disc' = [disc EXCEPT !.page = @ + 1, !.stage = "end"]
           \/ /\ rest # <<>>
              /\ faults' = faults
              /\ reqlog' = Append(reqlog,
                     Req("getUserVideoUploaded", DiscUid, disc.last_aid, 0, 0, TRUE))
              /\ disc' = [disc EXCEPT !.page = @ + 1,
                                      !.last_aid = rest[Min(ps, Len(rest))],
                                      !.pending = Take(rest, ps)]
    /\ UNCHANGED <<cpc, config, wallet, multiply, total_coins, max_coins,
                   videos, alloc, coin_result>>
    /\ UNCHANGED <<retryVars, fleetVars, medalVars, userVars, loopVars,
                   scanVars, pagerVars, groupVars>>

\* Remote: the spend levels a status query for aid may answer; a video the
\* run has not looked at yet may stand at any level.
Levels(aid) ==
    IF multiply[aid] < 0 THEN 0..PlatformMax ELSE {multiply[aid]}

\* _get_videos_from_uid 508-526: the next video of the page is checked.
CheckVideo ==
    /\ cpc = "discover"
    /\ disc.pending # <<>>
    /\ LET aid == Head(disc.pending)
       IN  \/ /\ faults < MaxFaults
              /\ faults' = faults + 1
              /\ reqlog' = Append(reqlog,
                     Req("getVideoCoinsStatus", DiscUid, aid, 0, 0 - 1, FALSE))
              /\ disc' = [disc EXCEPT !.pending = Tail(@)]
              /\ multiply' = multiply
           \/ \E lv \in Levels(aid) :
              /\ faults' = faults
              /\ multiply' = [multiply EXCEPT ![aid] = lv]
              /\ reqlog' = Append(reqlog,
                     Req("getVideoCoinsStatus", DiscUid, aid, 0, lv, TRUE))
              /\ IF lv < PlatformMax
                 THEN LET av == Append(disc.available, aid)
                      IN  disc' = [disc EXCEPT
                              !.available = av,
                              !.pending =
                                  IF Len(av) >= TargetCount(config.coin_max_per_uid)
                                  THEN <<>> ELSE Tail(@)]
                 ELSE disc' = [disc EXCEPT !.pending = Tail(@)]
    /\ UNCHANGED <<cpc, config, wallet, total_coins, max_coins, videos,
                   alloc, coin_result>>
    /\ UNCHANGED <<retryVars, fleetVars, medalVars, userVars, loopVars,
                   scanVars, pagerVars, groupVars>>

Video(uid, aid) == [_coin_uid |-> uid, aid |-> aid]

Tagged(av, uid) == [k \in 1..Len(av) |-> Video(uid, av[k])]

\* _get_videos_from_uid 539 and _get_videos_for_coin 441-453: the owner's
\* videos are returned, tagged with the owner and appended.
EndOwner ==
    /\ cpc = "discover"
    /\ disc.i <= Len(disc.targets)
    /\ \/ disc.stage = "end"
       \/ /\ disc.stage = "pages"
          /\ disc.pending = <<>>
          /\ ~MorePages(disc, TargetCount(config.coin_max_per_uid))
    /\ videos' = videos \o
           Tagged(Take(disc.available, TargetCount(config.coin_max_per_uid)),
                  DiscUid)
    /\ disc' = NewDisc(disc.targets, disc.i + 1)
    /\ UNCHANGED <<cpc, config, wallet, multiply, faults, total_coins,
                   max_coins, alloc, reqlog, coin_result>>
    /\ UNCHANGED <<retryVars, fleetVars, medalVars, userVars, loopVars,
                   scanVars, pagerVars, groupVars>>

\* _get_videos_for_coin 458-463 and coin_videos 413-419: discovery is over.
get_videos_done ==
    /\ cpc = "discover"
    /\ disc.i > Len(disc.targets)
    /\ IF videos = <<>>
       THEN /\ coin_result' = CoinResult(0, total_coins, <<>>)
            /\ cpc' = "done"
            /\ alloc' = alloc
       ELSE /\ cpc' = "spend"
            /\ alloc' = NewAlloc
            /\ coin_result' = coin_result
    /\ UNCHANGED <<config, wallet, multiply, faults, total_coins, max_coins,
                   disc, videos, reqlog>>
    /\ UNCHANGED <<retryVars, fleetVars, medalVars, userVars, loopVars,
                   scanVars, pagerVars, groupVars>>

RECURSIVE Dedup(_)
\* The distinct elements of a sequence, in order of first appearance.
Dedup(sq) ==
    IF sq = <<>> THEN <<>>
    ELSE LET rest == Dedup(SubSeq(sq, 1, Len(sq) - 1))
             x    == sq[Len(sq)]
         IN  IF x \in Range(rest) THEN rest ELSE Append(rest, x)

\* _coin_videos 609-614: the owners in the order videos_by_uid holds them,
\* and one owner's videos.
GroupUids_Ascending(vs) ==
    LET g == Dedup([k \in 1..Len(vs) |-> vs[k]._coin_uid])
    IN  IF Len(g) = 2 /\ g[1] > g[2] THEN <<g[2], g[1]>> ELSE g

GroupUids(vs) == Dedup([k \in 1..Len(vs) |-> vs[k]._coin_uid])

up_videos(vs, uid) == SelectSeq(vs, LAMBDA v : v._coin_uid = uid)

\* _coin_videos 631-636: the owner's ceiling is reached.
CapReached(uid, uid_coin_count, coin_max_per_uid) ==
    /\ coin_max_per_uid > 0
    /\ uid > 0
    /\ Get(uid_coin_count, uid) >= coin_max_per_uid

\* _coin_videos 658-665: the amount to spend on one video.
CoinsToAdd_NoGlobal(already, maxc, success, uid, uid_coin_count, cap) ==
    LET c == PlatformMax - already
    IN  IF cap > 0 /\ uid > 0
        THEN Min(c, cap - Get(uid_coin_count, uid))
        ELSE c

CoinsToAdd_NoOwnerCap(already, maxc, success, uid, uid_coin_count, cap) ==
    Min(PlatformMax - already, maxc - success)

CoinsToAdd_IgnoreAlready(already, maxc, success, uid, uid_coin_count, cap) ==
    LET c == Min(PlatformMax, maxc - success)
    IN  IF cap > 0 /\ uid > 0
        THEN Min(c, cap - Get(uid_coin_count, uid))
        ELSE c

CoinsToAdd(already, maxc, success, uid, uid_coin_count, cap) ==
    LET c == Min(PlatformMax - already, maxc - success)
    IN  IF cap > 0 /\ uid > 0
        THEN Min(c, cap - Get(uid_coin_count, uid))
        ELSE c

AllocUid == GroupUids(videos)[alloc.g]

AllocVideos == up_videos(videos, AllocUid)

\* _coin_videos 626-690: one video of the current owner is handled: its
\* spend level is queried and, if it can take coins, the spend is requested.
CoinVideo ==
    /\ cpc = "spend"
    /\ alloc.g <= Len(GroupUids(videos))
    /\ alloc.success_count < max_coins
    /\ alloc.j <= Len(AllocVideos)
    /\ ~CapReached(AllocUid, alloc.uid_coin_count, config.coin_max_per_uid)
    /\ LET uid == AllocUid
           aid == AllocVideos[alloc.j].aid
           next == [alloc EXCEPT !.j = @ + 1]
       IN  \/ /\ faults < MaxFaults
              /\ faults' = faults + 1
              /\ reqlog' = Append(reqlog,
                     Req("getVideoCoinsStatus", uid, aid, 0, 0 - 1, FALSE))
              /\ alloc' = next
              /\ UNCHANGED <<multiply, wallet>>
           \/ \E lv \in Levels(aid) :
              LET status == Req("getVideoCoinsStatus", uid, aid, 0, lv, TRUE)
                  amt == CoinsToAdd(lv, max_coins, alloc.success_count, uid,
                                    alloc.uid_coin_count, config.coin_max_per_uid)
              IN  IF lv >= PlatformMax \/ amt <= 0
                  THEN /\ reqlog' = Append(reqlog, status)
                       /\ alloc' = next
                       /\ multiply' = [multiply EXCEPT ![aid] = lv]
                       /\ UNCHANGED <<faults, wallet>>
                  ELSE \/ /\ faults < MaxFaults
                          /\ faults' = faults + 1
                          /\ reqlog' = reqlog \o
                                 <<status, Req("coinVideo", uid, aid, amt, lv, FALSE)>>
                          /\ alloc' = next
                          /\ multiply' = [multiply EXCEPT ![aid] = lv]
                          /\ wallet' = wallet
                       \/ /\ faults' = faults
                          /\ reqlog' = reqlog \o
                                 <<status, Req("coinVideo", uid, aid, amt, lv, TRUE)>>
                          /\ multiply' = [multiply EXCEPT ![aid] = lv + amt]
                          /\ wallet' = wallet - amt
                          /\ alloc' = [next EXCEPT
                                 !.success_count = @ + amt,
                                 !.uid_coin_count =
                                     IF uid > 0
                                     THEN Put(@, uid, Get(@, uid) + amt) ELSE @,
                                 !.up_stats =
                                     IF uid > 0
                                     THEN Put(@, uid, Get(@, uid) + amt) ELSE @]
    /\ UNCHANGED <<cpc, config, total_coins, max_coins, disc, videos, coin_result>>
    /\ UNCHANGED <<retryVars, fleetVars, medalVars, userVars, loopVars,
                   scanVars, pagerVars, groupVars>>

\* _coin_videos 617 and 633-636: the owner's videos are used up or the
\* owner's ceiling is reached; the loop goes to the next owner.
NextUp ==
    /\ cpc = "spend"
    /\ alloc.g <= Len(GroupUids(videos))
    /\ alloc.success_count < max_coins
    /\ \/ alloc.j > Len(AllocVideos)
       \/ CapReached(AllocUid, alloc.uid_coin_count, config.coin_max_per_uid)
    /\ alloc' = [alloc EXCEPT !.g = @ + 1, !.j = 1]
    /\ UNCHANGED <<cpc, config, wallet, multiply, faults, total_coins,
                   max_coins, disc, videos, reqlog, coin_result>>
    /\ UNCHANGED <<retryVars, fleetVars, medalVars, userVars, loopVars,
                   scanVars, pagerVars, groupVars>>

\* _coin_videos 618-619, 627-628, 698 and coin_videos 421-422: the loops
\* end and the run returns its result.
coin_return ==
    /\ cpc = "spend"
    /\ \/ alloc.g > Len(GroupUids(videos))
       \/ alloc.success_count >= max_coins
    /\ coin_result' = CoinResult(alloc.success_count,
                                 total_coins - alloc.success_count,
                                 alloc.up_stats)
    /\ cpc' = "done"
    /\ UNCHANGED <<config, wallet, multiply, faults, total_coins, max_coins,
                   disc, videos, alloc, reqlog>>
    /\ UNCHANGED <<retryVars, fleetVars, medalVars, userVars, loopVars,
                   scanVars, pagerVars, groupVars>>

(***************************************************************************)
(* FansMedalHelper.run over the configured accounts                        *)
(***************************************************************************)
NumAccounts == 2

Accounts == 1..NumAccounts

\* One configured entry: whether it carries an access_key, and whether its
\* white_uid/banned_uid strings parse (BiliUser._parse_uid_lists).
UserConfigs == [access_key : BOOLEAN, lists_ok : BOOLEAN]

\* A report line of account k; the separator line belongs to no account.
Line(k, text) == [k |-> k, text |-> text]

Separator == Line(0, "---")

\* BiliUser.__init__ 59-60: self.message and self.errmsg.
NoAnswers == [verify |-> "none", info |-> "none", worn |-> "none"]

NewAcct ==
    [session |-> "none", closes |-> 0, is_login |-> FALSE,
     answers |-> NoAnswers,
     phase |-> "none", outcome |-> "none",
     requests |-> 0, tasks |-> "none",
     message |-> <<>>, errmsg |-> <<>>, block |-> <<>>]

At(where) == [at |-> where, i |-> 1]

\* ClientSession.close(): the invocation is counted, the session is closed.
Close(a) == [a EXCEPT !.session = "closed", !.closes = @ + 1]

\* BiliUser.__init__ 31, 41 and 59-60: the lists are parsed, then the
\* session opens.  A malformed list raises ValueError before the session
\* exists.
Construct(k, cfg) ==
    IF cfg.lists_ok
    THEN [raised |-> FALSE,
          user |-> [NewAcct EXCEPT !.session = "open",
                                   !.phase = "constructed",
                                   !.errmsg = <<Line(k, "errlog")>>]]
    ELSE [raised |-> TRUE, user |-> NewAcct]

\* initialize_users 119-131: one entry of users_config is handled.  An
\* exception of the constructor leaves initialize_users, and run() logs it
\* and goes to its finally block.
initialize_users ==
    /\ fpc.at = "construct"
    /\ fpc.i <= Len(users_config)
    /\ LET cfg == users_config[fpc.i]
           c   == Construct(fpc.i, cfg)
       IN  IF ~cfg.access_key
           THEN /\ fpc' = [fpc EXCEPT !.i = @ + 1]
                /\ UNCHANGED <<users, acct>>
           ELSE IF c.raised
           THEN /\ fpc' = At("cleanup")
                /\ UNCHANGED <<users, acct>>
           ELSE /\ fpc' = [fpc EXCEPT !.i = @ + 1]
                /\ users' = Append(users, fpc.i)
                /\ acct' = [acct EXCEPT ![fpc.i] = c.user]
    /\ UNCHANGED <<users_config, current_users, shutdown, message_list,
                   cleanup_task>>
    /\ UNCHANGED <<retryVars, coinVars, medalVars, userVars, loopVars,
                   scanVars, pagerVars, groupVars>>

\* initialize_users 133-139 and run 274-276: the list is kept for cleanup
\* and the init tasks are gathered; with no account, run() returns.
gather_init ==
    /\ fpc.at = "construct"
    /\ fpc.i > Len(users_config)
    /\ current_users' = users
    /\ fpc' = IF users = <<>> THEN At("cleanup") ELSE At("init")
    /\ UNCHANGED <<users_config, users, acct, shutdown, message_list,
                   cleanup_task>>
    /\ UNCHANGED <<retryVars, coinVars, medalVars, userVars, loopVars,
                   scanVars, pagerVars, groupVars>>

\* login_verify 106-115 and init 141-142: what a failed login appends to
\* self.errmsg.
LoginFailed(k, a) ==
    [a EXCEPT !.is_login = FALSE,
              !.errmsg = @ \o <<Line(k, "login failed"),
                                 Line(k, "access_key expired")>>]

\* What the remote answers to the three calls of a login: loginVerift (a
\* mid, mid 0, or an error), getUserInfo (with a worn medal, without one, or
\* an error) and getMedalsInfoByUid for the worn medal.  A call that is not
\* reached has no answer.
LoginAnswers ==
    {a \in [verify : {"mid", "zero", "error"},
            info : {"medal", "no medal", "error", "none"},
            worn : {"ok", "error", "none"}] :
        /\ (a.info = "none") = (a.verify # "mid")
        /\ (a.worn = "none") = (a.info # "medal")}

\* AuthService.login_verify 32-51 and BiliUser.login_verify 76-115: the
\* login succeeds.  mid 0 and every exception of loginVerift or getUserInfo
\* become LoginError (40, 50-51); an exception of getMedalsInfoByUid is
\* caught at 111-115.
login_verify(a) ==
    /\ a.verify = "mid"
    /\ a.info \in {"medal", "no medal"}
    /\ a.info = "medal" => a.worn = "ok"

\* BiliUser.init 138-143, with login_verify 76-115: a failed login closes
\* the session.
init(u) ==
    /\ fpc.at = "init"
    /\ acct[u].phase = "constructed"
    /\ \E a \in LoginAnswers :
       acct' = [acct EXCEPT ![u] =
                   IF login_verify(a)
                   THEN [@ EXCEPT !.is_login = TRUE, !.answers = a,
                                  !.phase = "init_done"]
                   ELSE [Close(LoginFailed(u, @)) EXCEPT
                            !.answers = a, !.phase = "init_done"]]
    /\ UNCHANGED <<fpc, users_config, users, current_users, shutdown,
                   message_list, cleanup_task>>
    /\ UNCHANGED <<retryVars, coinVars, medalVars, userVars, loopVars,
                   scanVars, pagerVars, groupVars>>

\* asyncio.gather returns when every task it was given is done.
AllIn_Some(phase) == \E k \in Range(users) : acct[k].phase = phase

AllIn(phase) == \A k \in Range(users) : acct[k].phase = phase

\* initialize_users 145, run 279-284 and execute_tasks 166-174: every init
\* has completed; the start tasks are gathered.
gather_start ==
    /\ fpc.at = "init"
    /\ AllIn("init_done")
    /\ fpc' = At("start")
    /\ UNCHANGED <<users_config, users, current_users, acct, shutdown,
                   message_list, cleanup_task>>
    /\ UNCHANGED <<retryVars, coinVars, medalVars, userVars, loopVars,
                   scanVars, pagerVars, groupVars>>

\* start 147-148 and send_msg 182: the account is not logged in.
StartReturnsAtOnce_Never(a) == FALSE

StartReturnsAtOnce_WhenLoggedIn(a) == a.is_login

StartReturnsAtOnce(a) == ~a.is_login

\* BiliUser.start 145-178: returns at once without login; else the medal
\* fetch is requested and may raise, or the tasks run and start returns.
start(u) ==
    /\ fpc.at = "start"
    /\ acct[u].phase = "init_done"
    /\ \E raised \in BOOLEAN :
       acct' = [acct EXCEPT ![u] =
                   IF StartReturnsAtOnce(@)
                   THEN [@ EXCEPT !.phase = "start_done",
                                  !.outcome = "started"]
                   ELSE IF raised
                   THEN [@ EXCEPT !.phase = "start_done",
                                  !.requests = @ + 1,
                                  !.outcome = "start_raised"]
                   ELSE [@ EXCEPT !.phase = "start_done",
                                  !.requests = @ + 1,
                                  !.tasks = "ran",
                                  !.outcome = "started"]]
    /\ UNCHANGED <<fpc, users_config, users, current_users, shutdown,
                   message_list, cleanup_task>>
    /\ UNCHANGED <<retryVars, coinVars, medalVars, userVars, loopVars,
                   scanVars, pagerVars, groupVars>>

\* execute_tasks 174 and 183-192: the start tasks are all done (exceptions
\* are returned, not raised); the send_msg tasks are gathered.
gather_msg ==
    /\ fpc.at = "start"
    /\ AllIn("start_done")
    /\ fpc' = At("msg")
    /\ UNCHANGED <<users_config, users, current_users, acct, shutdown,
                   message_list, cleanup_task>>
    /\ UNCHANGED <<retryVars, coinVars, medalVars, userVars, loopVars,
                   scanVars, pagerVars, groupVars>>

\* send_msg 184 and 195: the lines send_msg returns.
Block(a) ==
    IF ~a.is_login
    THEN a.message \o a.errmsg
    ELSE a.message \o a.errmsg \o <<Separator>>

\* BiliUser.send_msg 180-195: without login the session is closed and the
\* messages returned; else the medal re-fetch or the report may raise, which
\* skips the close, or the report is built and the session closed.
send_msg(u) ==
    /\ fpc.at = "msg"
    /\ acct[u].phase = "start_done"
    /\ \E raised \in BOOLEAN :
       LET a == acct[u]
           r == [a EXCEPT !.message = @ \o <<Line(u, "report")>>]
       IN  acct' = [acct EXCEPT ![u] =
                       IF ~a.is_login
                       THEN [Close(a) EXCEPT !.phase = "msg_done",
                                             !.outcome = "reported",
                                             !.block = Block(a)]
                       ELSE IF raised
                       THEN [a EXCEPT !.phase = "msg_done",
                                      !.requests = @ + 1,
                                      !.outcome = "msg_raised"]
                       ELSE [Close(r) EXCEPT !.phase = "msg_done",
                                             !.requests = @ + 1,
                                             !.outcome = "reported",
                                             !.block = Block(r)]]
    /\ UNCHANGED <<fpc, users_config, users, current_users, shutdown,
                   message_list, cleanup_task>>
    /\ UNCHANGED <<retryVars, coinVars, medalVars, userVars, loopVars,
                   scanVars, pagerVars, groupVars>>

\* execute_tasks 195-198: the results that are not exceptions, chained.
RECURSIVE chain(_)
chain(us) ==
    IF us = <<>> THEN <<>>
    ELSE (IF acct[Head(us)].outcome = "reported"
          THEN acct[Head(us)].block ELSE <<>>) \o chain(Tail(us))

\* execute_tasks 192-203 and run 286-292: the messages are collected,
\* logged and pushed; run() reaches its finally block.
collect ==
    /\ fpc.at = "msg"
    /\ AllIn("msg_done")
    /\ message_list' = [collected |-> TRUE, lines |-> chain(users)]
    /\ fpc' = At("cleanup")
    /\ UNCHANGED <<users_config, users, current_users, acct, shutdown,
                   cleanup_task>>
    /\ UNCHANGED <<retryVars, coinVars, medalVars, userVars, loopVars,
                   scanVars, pagerVars, groupVars>>

\* cleanup_users 101-103 and _immediate_cleanup 65-67: the sessions the
\* cleanup closes.
ToClose(cur) == {k \in Range(cur) : acct[k].session # "closed"}

\* run 303-312 with cleanup_users 96-112: the sessions of _current_users
\* that are not closed are closed, the list is cleared, run() returns.
cleanup_users ==
    /\ fpc.at = "cleanup"
    /\ acct' = [k \in Accounts |->
                   IF k \in ToClose(current_users) THEN Close(acct[k])
                   ELSE acct[k]]
    /\ current_users' = <<>>
    /\ fpc' = At("returned")
    /\ UNCHANGED <<users_config, users, shutdown, message_list,
                   cleanup_task>>
    /\ UNCHANGED <<retryVars, coinVars, medalVars, userVars, loopVars,
                   scanVars, pagerVars, groupVars>>

\* _signal_handler 47-48: the handler is installed by run(), and the event
\* loop is running for as long as run() is.
LoopRunning == fpc.at # "returned"

\* _signal_handler 39-58: the event is set; with the loop running the
\* cleanup is made a task of the loop, otherwise _immediate_cleanup 60-78 is
\* run to its end; then os._exit(0) ends the process, before the loop gets
\* to run any task.
_signal_handler ==
    /\ fpc.at # "killed"
    /\ shutdown' = TRUE
    /\ IF LoopRunning
       THEN /\ cleanup_task' = "scheduled"
            /\ UNCHANGED acct
       ELSE /\ cleanup_task' = "ran"
            /\ acct' = [k \in Accounts |->
                           IF k \in ToClose(current_users)
                           THEN Close(acct[k]) ELSE acct[k]]
    /\ fpc' = At("killed")
    /\ UNCHANGED <<users_config, users, current_users, message_list>>
    /\ UNCHANGED <<retryVars, coinVars, medalVars, userVars, loopVars,
                   scanVars, pagerVars, groupVars>>

(***************************************************************************)
(* MedalService and StatsService: one account's medal listing is filtered, *)
(* classified and reported (BiliUser.get_medals, BiliUser.send_msg)        *)
(***************************************************************************)
MaxMedals == 2

MedalOwners == {5, 7, 9}

DailyCap == 30

Feeds == {10, 30, 40}

\* One item of the fan medal panel: medal.target_id, room_info.room_id,
\* medal.is_lighted, room_info.living_status, medal.today_feed.  An item
\* without a room carries room_id 0; the anchor's nick_name is modelled by
\* target_id.  living_status is 0 (not live), 1 (live) or 2 (a replay on a
\* loop); one anchor's room is tried with 2.
Medals ==
    [target_id : MedalOwners, room_id : {1}, is_lighted : {0, 1},
     living_status : {0, 1}, today_feed : Feeds]
    \cup [target_id : MedalOwners, room_id : {0}, is_lighted : {0},
          living_status : {0}, today_feed : {10}]
    \cup [target_id : {7}, room_id : {1}, is_lighted : {0, 1},
          living_status : {2}, today_feed : {10}]

RECURSIVE SeqsUpTo(_, _)
SeqsUpTo(S, n) ==
    IF n = 0 THEN {<<>>}
    ELSE LET shorter == SeqsUpTo(S, n - 1)
         IN  shorter \cup {Append(sq, x) : sq \in {t \in shorter : Len(t) = n - 1},
                                           x \in S}

\* An account followed by three anchors: A = 7 (score 40, lit, live),
\* B = 9 (score 10, unlit, not live) and C = 5 (no room).
Scenario ==
    <<[target_id |-> 7, room_id |-> 1, is_lighted |-> 1,
       living_status |-> 1, today_feed |-> 40],
      [target_id |-> 9, room_id |-> 1, is_lighted |-> 0,
       living_status |-> 0, today_feed |-> 10],
      [target_id |-> 5, room_id |-> 0, is_lighted |-> 0,
       living_status |-> 0, today_feed |-> 10]>>

Listings == SeqsUpTo(Medals, MaxMedals) \cup {Scenario}

\* The white_uid / banned_uid lists of the account, as _parse_uid_lists
\* leaves them; an empty string gives [0].
MedalListConfigs ==
    {[white |-> <<0>>, banned |-> <<0>>],
     [white |-> <<0>>, banned |-> <<5>>],
     [white |-> <<7, 9>>, banned |-> <<7>>]}

\* get_all_medals 79-96: the item is kept.
Included_IgnoresDeny(medal, white_list, banned_list) ==
    /\ medal.room_id # 0
    /\ white_list # <<0>> => medal.target_id \in Range(white_list)

Included_DenyInAllowMode(medal, white_list, banned_list) ==
    /\ medal.room_id # 0
    /\ medal.target_id \notin Range(banned_list)
    /\ white_list # <<0>> => medal.target_id \in Range(white_list)

Included_KeepsRoomless(medal, white_list, banned_list) ==
    IF white_list = <<0>>
    THEN medal.target_id \notin Range(banned_list)
    ELSE medal.target_id \in Range(white_list)

Included(medal, white_list, banned_list) ==
    IF medal.room_id = 0 THEN FALSE
    ELSE IF white_list = <<0>>
    THEN medal.target_id \notin Range(banned_list)
    ELSE medal.target_id \in Range(white_list)

\* MedalService.get_all_medals 66-98, over the items the listing yields.
RECURSIVE get_all_medals(_, _, _)
get_all_medals(items, white_list, banned_list) ==
    IF items = <<>> THEN <<>>
    ELSE LET rest == get_all_medals(Tail(items), white_list, banned_list)
         IN  IF Included(Head(items), white_list, banned_list)
             THEN <<Head(items)>> \o rest
             ELSE rest

\* classify_medals 123-128.
NewClassified ==
    [need_do |-> <<>>, others |-> <<>>, living |-> <<>>, no_living |-> <<>>]

\* classify_medals 131-149: one medal is appended to its buckets.
ClassifyOne_LiveUnlessOff(classified, medal) ==
    LET lit == IF medal.is_lighted = 0
               THEN IF medal.living_status # 0
                    THEN [classified EXCEPT !.living = Append(@, medal)]
                    ELSE [classified EXCEPT !.no_living = Append(@, medal)]
               ELSE classified
    IN  IF medal.today_feed < DailyCap
        THEN [lit EXCEPT !.need_do = Append(@, medal)]
        ELSE [lit EXCEPT !.others = Append(@, medal)]

ClassifyOne(classified, medal) ==
    LET lit == IF medal.is_lighted = 0
               THEN IF medal.living_status = 1
                    THEN [classified EXCEPT !.living = Append(@, medal)]
                    ELSE [classified EXCEPT !.no_living = Append(@, medal)]
               ELSE classified
    IN  IF medal.today_feed < DailyCap
        THEN [lit EXCEPT !.need_do = Append(@, medal)]
        ELSE [lit EXCEPT !.others = Append(@, medal)]

RECURSIVE ClassifyInto(_, _)
ClassifyInto(classified, medals) ==
    IF medals = <<>> THEN classified
    ELSE ClassifyInto(ClassifyOne(classified, Head(medals)), Tail(medals))

\* BiliUser.__init__ 34-38 and _clear_medal_lists 133-136.
NoMedals ==
    [medals |-> <<>>, medalsNeedDo |-> <<>>, medalsOthers |-> <<>>,
     medalsLiving |-> <<>>, medalsNoLiving |-> <<>>]

\* The buckets as the account holds them.
Held(m) ==
    [need_do |-> m.medalsNeedDo, others |-> m.medalsOthers,
     living |-> m.medalsLiving, no_living |-> m.medalsNoLiving]

\* MedalService.classify_medals 121-151.
classify_medals_Accumulating(medals) == ClassifyInto(Held(user_medals), medals)

classify_medals(medals) == ClassifyInto(NewClassified, medals)

\* BiliUser.get_medals 117-131: fetch, filter and classify; the old lists
\* are cleared and replaced.
get_medals ==
    /\ mpc \in {"init", "started"}
    /\ LET all == get_all_medals(listing, whiteList, bannedList)
           classified == classify_medals(all)
           held == [medals |-> classified.need_do \o classified.others,
                    medalsNeedDo |-> classified.need_do,
                    medalsOthers |-> classified.others,
                    medalsLiving |-> classified.living,
                    medalsNoLiving |-> classified.no_living]
       IN  /\ filtered' = all
           /\ user_medals' = held
           /\ snapshots' = Append(snapshots, held)
    /\ mpc' = IF mpc = "init" THEN "started" ELSE "refetched"
    /\ UNCHANGED <<listing, whiteList, bannedList, report>>
    /\ UNCHANGED <<retryVars, coinVars, fleetVars, userVars, loopVars,
                   scanVars, pagerVars, groupVars>>

\* BiliUser.start 155-160: the medals handed to the like task, which is
\* created only when medalsNeedDo is not empty.
like_targets(held) ==
    IF held.medalsNeedDo # <<>> THEN held.medalsLiving ELSE <<>>

\* StatsService.calculate_medal_stats 22-44.
RECURSIVE calculate_medal_stats(_)
calculate_medal_stats(medals) ==
    IF medals = <<>>
    THEN [full |-> <<>>, low |-> <<>>, unlit |-> <<>>]
    ELSE LET medal == Head(medals)
             nick_name == medal.target_id
             rest == calculate_medal_stats(Tail(medals))
         IN  [full |-> IF medal.today_feed >= DailyCap
                       THEN <<nick_name>> \o rest.full ELSE rest.full,
              low |-> IF medal.today_feed >= DailyCap
                      THEN rest.low ELSE <<nick_name>> \o rest.low,
              unlit |-> IF medal.is_lighted = 0
                        THEN <<nick_name>> \o rest.unlit ELSE rest.unlit]

DisplayNames == 5

\* generate_report_messages 56-62: the line of one label; an empty list
\* gives no line.
ReportLine(label, name_list) ==
    IF name_list = <<>> THEN <<>>
    ELSE <<[label |-> label,
            names |-> Take(name_list, DisplayNames),
            more |-> Len(name_list) > DisplayNames,
            count |-> Len(name_list)]>>

\* StatsService.generate_report_messages 46-64.
generate_report_messages(stats) ==
    <<[label |-> "title", names |-> <<>>, more |-> FALSE, count |-> 0]>>
    \o ReportLine("30", stats.full)
    \o ReportLine("below 30", stats.low)
    \o ReportLine("unlit", stats.unlit)

\* BiliUser.send_msg 190-192 with StatsService.execute 119-132: the medal
\* statistics lines of the report, from self.medals.
stats_execute ==
    /\ mpc = "refetched"
    /\ report' = generate_report_messages(
                     calculate_medal_stats(user_medals.medals))
    /\ mpc' = "reported"
    /\ UNCHANGED <<listing, whiteList, bannedList, filtered, user_medals,
                   snapshots>>
    /\ UNCHANGED <<retryVars, coinVars, fleetVars, userVars, loopVars,
                   scanVars, pagerVars, groupVars>>

(***************************************************************************)
(* BiliUser.start: the sub-tasks of one logged-in account                  *)
(***************************************************************************)
MaxTargets == 1

MaxRepeat == 2

LIKE_COUNT_ASYNC == 35
WATCHINGLIVE == 45
DANMAKU_NUM == 10

TaskNames == {"like", "heartbeat", "danmaku", "group", "coin"}

\* What one account's start works on: the sizes of medalsNeedDo,
\* medalsLiving and medalsNoLiving, the number of groups the remote lists,
\* whether coin_uid names a target, and the WEARMEDAL switch.  The other
\* settings keep their defaults (ASYNC 1, LIKE_CD 1, DANMAKU_CD 3,
\* SIGNINGROUP 2), so no sub-task is switched off.
UserInputs ==
    [need_do : 0..MaxTargets, living : 0..MaxTargets,
     no_living : 0..MaxTargets, groups : 0..MaxTargets,
     coin_uid : BOOLEAN, WEARMEDAL : {0, 1}]

\* A remote call of a sub-task: succeeds, fails with TOKEN_ERROR, or fails
\* otherwise.
Outcomes == {"ok", "token", "error"}

\* A coroutine: not created, created, running, returned, raised.
NewTask == [status |-> "none", item |-> 1, rep |-> 1]

\* The loop counts, capped.
LikeCount == Min(LIKE_COUNT_ASYNC, MaxRepeat)

WatchTime == Min(WATCHINGLIVE, MaxRepeat)

DanmakuNum == Min(DANMAKU_NUM, MaxRepeat)

\* One remote call of a sub-task is issued and answered.
TaskRequest(outcome) ==
    /\ outcome # "ok" => ufaults < MaxFaults
    /\ ufaults' = IF outcome = "ok" THEN ufaults ELSE ufaults + 1
    /\ requested_after_token' = (requested_after_token \/ token_seen)
    /\ token_seen' = (token_seen \/ outcome = "token")

NoTaskRequest == UNCHANGED <<ufaults, requested_after_token, token_seen>>

Running(n) == upc = "gather" /\ task[n].status = "running"

\* start 150-168: the medals are fetched (an exception leaves start), the
\* like and heartbeat coroutines are created when medalsNeedDo is not
\* empty, the danmaku and group coroutines always; line 171 then awaits
\* the coin run.
start_get_medals ==
    /\ upc = "start"
    /\ \E raised \in BOOLEAN :
          IF raised
          THEN upc' = "raised" /\ UNCHANGED task
          ELSE /\ upc' = "coin"
               /\ task' = [n \in TaskNames |->
                     IF n \in {"like", "heartbeat"}
                     THEN IF ucfg.need_do > 0
                          THEN [NewTask EXCEPT !.status = "created"]
                          ELSE NewTask
                     ELSE IF n = "danmaku"
                     THEN [NewTask EXCEPT
                              !.status = "created",
                              !.rep = IF ucfg.WEARMEDAL = 1 THEN 0 ELSE 1]
                     ELSE IF n = "group"
                     THEN [NewTask EXCEPT !.status = "created", !.item = 0]
                     ELSE [NewTask EXCEPT !.status = "running"]]
    /\ NoTaskRequest
    /\ UNCHANGED ucfg
    /\ UNCHANGED <<retryVars, coinVars, fleetVars, medalVars, loopVars,
                   scanVars, pagerVars, groupVars>>

\* The remote calls of one coin run over one target and one video, in
\* order: getMyInfo, the name lookup, the page fetch, the status query of
\* discovery, the status query before the spend, coinVideo.
CoinCalls == 6

\* Where the coin run goes on after call k failed: the exception of
\* getMyInfo is caught at coin_videos 424, that of the name lookup at 486
\* (the page fetch follows), those of the page fetch (531) and of the
\* status queries (524, 692) leave no video to spend on.
CoinAfterFailure(k) == IF k = 2 THEN 3 ELSE CoinCalls + 1

\* CoinService.coin_videos 375-426, as start awaits it: every exception is
\* caught inside, and the run returns.
coin_service_execute ==
    /\ upc = "coin"
    /\ task["coin"].status = "running"
    /\ LET t == task["coin"]
       IN  IF ~ucfg.coin_uid \/ t.item > CoinCalls
           THEN /\ task' = [task EXCEPT !["coin"].status =
                               IF t.rep = 0 THEN "failed" ELSE "done"]
                /\ NoTaskRequest
           ELSE \E o \in Outcomes :
                   /\ TaskRequest(o)
                   /\ task' = [task EXCEPT !["coin"] =
                         IF o = "ok" THEN [t EXCEPT !.item = @ + 1]
                         ELSE [t EXCEPT !.item = CoinAfterFailure(t.item),
                                        !.rep = 0]]
    /\ UNCHANGED <<upc, ucfg>>
    /\ UNCHANGED <<retryVars, coinVars, fleetVars, medalVars, loopVars,
                   scanVars, pagerVars, groupVars>>

\* start 171-178: the coin run has returned; the coroutines created are
\* gathered and start to run.
start_gather ==
    /\ upc = "coin"
    /\ task["coin"].status \in {"done", "failed"}
    /\ upc' = "gather"
    /\ task' = [n \in TaskNames |->
                   IF task[n].status = "created"
                   THEN [task[n] EXCEPT !.status = "running"]
                   ELSE task[n]]
    /\ NoTaskRequest
    /\ UNCHANGED ucfg
    /\ UNCHANGED <<retryVars, coinVars, fleetVars, medalVars, loopVars,
                   scanVars, pagerVars, groupVars>>

\* like_medals 170-173 with _async_like 198-215: LIKE_COUNT_ASYNC rounds of
\* one call per medal, the calls of a round gathered; with no medal a round
\* makes no call.
LikeRounds == IF ucfg.living = 0 THEN 0 ELSE LikeCount

\* LikeService.like_medals 162-177: any exception of a like call ends the
\* task with BiliException.
like_medals ==
    /\ Running("like")
    /\ LET t == task["like"]
       IN  IF t.item > LikeRounds
           THEN /\ task' = [task EXCEPT !["like"].status = "done"]
                /\ NoTaskRequest
           ELSE \E o \in Outcomes :
                   /\ TaskRequest(o)
                   /\ task' = [task EXCEPT !["like"] =
                         IF o = "ok" THEN [t EXCEPT !.item = @ + 1]
                         ELSE [t EXCEPT !.status = "failed"]]
    /\ UNCHANGED <<upc, ucfg>>
    /\ UNCHANGED <<retryVars, coinVars, fleetVars, medalVars, loopVars,
                   scanVars, pagerVars, groupVars>>

\* HeartbeatService.watch_medals 276-291 with _watch_single_medal 293-316:
\* one heartbeat a minute for each medal in turn; an exception ends the
\* watching of that medal only.
watch_medals ==
    /\ Running("heartbeat")
    /\ LET t == task["heartbeat"]
       IN  IF t.item > ucfg.need_do
           THEN /\ task' = [task EXCEPT !["heartbeat"].status = "done"]
                /\ NoTaskRequest
           ELSE \E o \in Outcomes :
                   /\ TaskRequest(o)
                   /\ task' = [task EXCEPT !["heartbeat"] =
                         IF o = "ok" /\ t.rep < WatchTime
                         THEN [t EXCEPT !.rep = @ + 1]
                         ELSE [t EXCEPT !.item = @ + 1, !.rep = 1]]
    /\ UNCHANGED <<upc, ucfg>>
    /\ UNCHANGED <<retryVars, coinVars, fleetVars, medalVars, loopVars,
                   scanVars, pagerVars, groupVars>>

\* DanmakuService.send_danmaku_to_medals 225-266: for each medal in turn
\* wearMedal (rep 0, outside the try: an exception ends the task), then up
\* to DANMAKU_NUM comments; a duplicate-comment answer or an exception ends
\* the comments of that medal only.
send_danmaku_to_medals ==
    /\ Running("danmaku")
    /\ LET t == task["danmaku"]
           first == IF ucfg.WEARMEDAL = 1 THEN 0 ELSE 1
       IN  IF t.item > ucfg.no_living
           THEN /\ task' = [task EXCEPT !["danmaku"].status = "done"]
                /\ NoTaskRequest
           ELSE IF t.rep = 0
           THEN \E o \in Outcomes :
                   /\ TaskRequest(o)
                   /\ task' = [task EXCEPT !["danmaku"] =
                         IF o = "ok" THEN [t EXCEPT !.rep = 1]
                         ELSE [t EXCEPT !.status = "failed"]]
           ELSE \E o \in Outcomes \cup {"duplicate"} :
                   /\ TaskRequest(IF o = "duplicate" THEN "ok" ELSE o)
                   /\ task' = [task EXCEPT !["danmaku"] =
                         IF o = "ok" /\ t.rep < DanmakuNum
                         THEN [t EXCEPT !.rep = @ + 1]
                         ELSE [t EXCEPT !.item = @ + 1, !.rep = first]]
    /\ UNCHANGED <<upc, ucfg>>
    /\ UNCHANGED <<retryVars, coinVars, fleetVars, medalVars, loopVars,
                   scanVars, pagerVars, groupVars>>

\* GroupService.sign_in_groups 326-360: getGroups (item 0), whose exception
\* ends the loop, then signInGroups for each group, whose exception is
\* logged and the next group follows.
sign_in_groups ==
    /\ Running("group")
    /\ LET t == task["group"]
       IN  IF t.item > ucfg.groups
           THEN /\ task' = [task EXCEPT !["group"].status = "done"]
                /\ NoTaskRequest
           ELSE \E o \in Outcomes :
                   /\ TaskRequest(o)
                   /\ task' = [task EXCEPT !["group"] =
                         IF t.item = 0 /\ o # "ok"
                         THEN [t EXCEPT !.item = ucfg.groups + 1]
                         ELSE [t EXCEPT !.item = @ + 1]]
    /\ UNCHANGED <<upc, ucfg>>
    /\ UNCHANGED <<retryVars, coinVars, fleetVars, medalVars, loopVars,
                   scanVars, pagerVars, groupVars>>

Launched(t) == {n \in TaskNames : t[n].status # "none"}

\* start 178: gather(*tasks, return_exceptions=True) is over.
GatherOver_FirstCompleted(t) ==
    \E n \in Launched(t) : t[n].status \in {"done", "failed"}

GatherOver_FirstException(t) ==
    \/ \A n \in Launched(t) : t[n].status \in {"done", "failed"}
    \/ \E n \in Launched(t) : t[n].status = "failed"

GatherOver(t) == \A n \in Launched(t) : t[n].status \in {"done", "failed"}

\* start 178: start returns.
start_return ==
    /\ upc = "gather"
    /\ GatherOver(task)
    /\ upc' = "returned"
    /\ NoTaskRequest
    /\ UNCHANGED <<ucfg, task>>
    /\ UNCHANGED <<retryVars, coinVars, fleetVars, medalVars, loopVars,
                   scanVars, pagerVars, groupVars>>

\* execute_tasks 174 and 191-192, send_msg 186-195: start is over, by
\* return or by exception, and the report phase runs; its medal fetch may
\* raise.
report_phase ==
    /\ upc \in {"returned", "raised"}
    /\ \E raised \in BOOLEAN :
          upc' = IF raised THEN "msg_raised" ELSE "reported"
    /\ NoTaskRequest
    /\ UNCHANGED <<ucfg, task>>
    /\ UNCHANGED <<retryVars, coinVars, fleetVars, medalVars, loopVars,
                   scanVars, pagerVars, groupVars>>

(***************************************************************************)
(* LikeService, HeartbeatService, DanmakuService: one execute() over a     *)
(* list of medals, request by request                                      *)
(***************************************************************************)
LIKE_COUNT_SYNC == 30

Services == {"like", "heartbeat", "danmaku"}

\* The lists of medals tried, each medal named by its target_id.
MedalLists ==
    {sq \in SeqsUpTo(MedalOwners, MaxMedals) :
        \A i, j \in 1..Len(sq) : i # j => sq[i] # sq[j]}

LoopConfigs == [ASYNC : {0, 1}, WEARMEDAL : {0, 1}]

\* What the remote answers to one call; the comment endpoint may also
\* answer that the comment was sent before (BiliApi.sendDanmaku 199-200).
Replies == {"ok", "error"}

DanmakuReplies == Replies \cup {"duplicate"}

\* One request of the loop, as logged when it is issued.
Sent(api, medal) == [api |-> api, medal |-> medal, reply |-> "pending"]

Pending(log) == {k \in 1..Len(log) : log[k].reply = "pending"}

\* await: the loop goes on when the call it made has been answered.
Awaited_FireAndForget(log) == TRUE

Awaited(log) == Pending(log) = {}

\* The loop counts, capped.
LikeTimes ==
    Min(IF lcfg.ASYNC = 0 THEN LIKE_COUNT_SYNC ELSE LIKE_COUNT_ASYNC,
        MaxRepeat)

\* send_danmaku_to_medals 241-243: with WEARMEDAL a medal's first call is
\* wearMedal (round 0).
FirstRound(svc, cfg) ==
    IF svc = "danmaku" /\ cfg.WEARMEDAL = 1 THEN 0 ELSE 1

LoopAt(status, item, round) ==
    [status |-> status, item |-> item, rep |-> round]

\* The loop has no call left to make.
LoopOver ==
    IF service = "like" /\ lcfg.ASYNC = 1
    THEN lpos.rep > LikeTimes \/ lmedals = <<>>
    ELSE lpos.item > Len(lmedals)

LoopRuns(svc) ==
    /\ service = svc
    /\ lpos.status = "running"
    /\ Awaited(llog)
    /\ ~LoopOver

\* _sync_like 185-191: one likeInteractV3 call for the current medal;
\* _async_like 202-212: one call for every medal, gathered.
like_call ==
    /\ LoopRuns("like")
    /\ llog' = IF lcfg.ASYNC = 0
               THEN Append(llog, Sent("likeInteractV3", lmedals[lpos.item]))
               ELSE llog \o [k \in 1..Len(lmedals) |->
                                Sent("likeInteractV3", lmedals[k])]
    /\ UNCHANGED <<service, lmedals, lcfg, lpos, success_count>>
    /\ UNCHANGED <<retryVars, coinVars, fleetVars, medalVars, userVars,
                   scanVars, pagerVars, groupVars>>

\* like_medals 169-177: a call is answered.  An exception leaves the loop
\* and like_medals raises BiliException; the calls of the round that are
\* still in flight are answered later, to nobody.
like_reply ==
    /\ service = "like"
    /\ \E k \in Pending(llog), r \in Replies :
          /\ llog' = [llog EXCEPT ![k].reply = r]
          /\ lpos' =
                IF lpos.status # "running" THEN lpos
                ELSE IF r # "ok" THEN [lpos EXCEPT !.status = "failed"]
                ELSE IF lcfg.ASYNC = 0
                THEN IF lpos.rep < LikeTimes
                     THEN [lpos EXCEPT !.rep = @ + 1]
                     ELSE [lpos EXCEPT !.item = @ + 1, !.rep = 1]
                ELSE IF Pending(llog) = {k}
                THEN [lpos EXCEPT !.rep = @ + 1]
                ELSE lpos
    /\ UNCHANGED <<service, lmedals, lcfg, success_count>>
    /\ UNCHANGED <<retryVars, coinVars, fleetVars, medalVars, userVars,
                   scanVars, pagerVars, groupVars>>

\* _watch_single_medal 302-304: the heartbeat of the current minute.
heartbeat_call ==
    /\ LoopRuns("heartbeat")
    /\ llog' = Append(llog, Sent("heartbeat", lmedals[lpos.item]))
    /\ UNCHANGED <<service, lmedals, lcfg, lpos, success_count>>
    /\ UNCHANGED <<retryVars, coinVars, fleetVars, medalVars, userVars,
                   scanVars, pagerVars, groupVars>>

\* _watch_single_medal 304-316 and watch_medals 287-288: the heartbeat is
\* answered; after the last minute, or after an exception, the next medal
\* follows.
heartbeat_reply ==
    /\ service = "heartbeat"
    /\ \E k \in Pending(llog), r \in Replies :
          /\ llog' = [llog EXCEPT ![k].reply = r]
          /\ lpos' = IF r = "ok" /\ lpos.rep < WatchTime
                     THEN [lpos EXCEPT !.rep = @ + 1]
                     ELSE [lpos EXCEPT !.item = @ + 1, !.rep = 1]
    /\ UNCHANGED <<service, lmedals, lcfg, success_count>>
    /\ UNCHANGED <<retryVars, coinVars, fleetVars, medalVars, userVars,
                   scanVars, pagerVars, groupVars>>

\* send_danmaku_to_medals 240-250: wearMedal for the medal, or one comment.
danmaku_call ==
    /\ LoopRuns("danmaku")
    /\ llog' = Append(llog,
                   Sent(IF lpos.rep = 0 THEN "wearMedal" ELSE "sendDanmaku",
                        lmedals[lpos.item]))
    /\ UNCHANGED <<service, lmedals, lcfg, lpos, success_count>>
    /\ UNCHANGED <<retryVars, coinVars, fleetVars, medalVars, userVars,
                   scanVars, pagerVars, groupVars>>

\* send_danmaku_to_medals 253-261: the answer ends the comments of this
\* medal (break).
EndsTarget_ExceptionOnly(reply) == reply = "error"

EndsTarget(reply) == reply \in {"duplicate", "error"}

\* send_danmaku_to_medals 241-264: the call is answered.  wearMedal is made
\* outside the try, so its exception leaves the loop; a medal whose
\* comments all went out is counted (the for's else).
danmaku_reply ==
    /\ service = "danmaku"
    /\ \E k \in Pending(llog) :
       \E r \in IF llog[k].api = "wearMedal" THEN Replies ELSE DanmakuReplies :
          LET next == [lpos EXCEPT !.item = @ + 1,
                                   !.rep = FirstRound(service, lcfg)]
          IN  /\ llog' = [llog EXCEPT ![k].reply = r]
              /\ IF llog[k].api = "wearMedal"
                 THEN /\ lpos' = IF r = "ok" THEN [lpos EXCEPT !.rep = 1]
                                 ELSE [lpos EXCEPT !.status = "failed"]
                      /\ UNCHANGED success_count
                 ELSE IF EndsTarget(r)
                 THEN lpos' = next /\ UNCHANGED success_count
                 ELSE IF lpos.rep < DanmakuNum
                 THEN /\ lpos' = [lpos EXCEPT !.rep = @ + 1]
                      /\ UNCHANGED success_count
                 ELSE /\ lpos' = next
                      /\ success_count' = success_count + 1
    /\ UNCHANGED <<service, lmedals, lcfg>>
    /\ UNCHANGED <<retryVars, coinVars, fleetVars, medalVars, userVars,
                   scanVars, pagerVars, groupVars>>

\* like_medals 173, watch_medals 290-291, send_danmaku_to_medals 266: the
\* loop is over and execute() returns.
execute_return ==
    /\ service \in Services
    /\ lpos.status = "running"
    /\ Awaited(llog)
    /\ LoopOver
    /\ lpos' = [lpos EXCEPT !.status = "done"]
    /\ UNCHANGED <<service, lmedals, lcfg, llog, success_count>>
    /\ UNCHANGED <<retryVars, coinVars, fleetVars, medalVars, userVars,
                   scanVars, pagerVars, groupVars>>

(***************************************************************************)
(* The specifications                                                      *)
(***************************************************************************)
(***************************************************************************)
(* CoinService._get_videos_from_uid for one owner, against a remote that   *)
(* may answer each request in any way                                      *)
(***************************************************************************)
\* The most items the remote puts on one page, and the largest
\* coin_max_per_uid tried.
PageLen == 2
MaxCeiling == 2

\* _get_videos_from_uid 479: the page size of the name lookup.
NameLookupPs == 10

\* A request of the owner's listing: the page size asked for, the number
\* of available_videos when it was issued, and how it was answered.
ListingAnswers == {"fail", "empty", "items"}

ListingRequest(size, have, answer) ==
    [api |-> "getUserVideoUploaded", ps |-> size, have |-> have,
     answer |-> answer]

\* _get_videos_from_uid 471-475
NewScan == [stage |-> "name", page |-> 0, available |-> <<>>, pending |-> <<>>]

\* Remote: the aids of the n items of a page.
PageAids(page, n) == [k \in 1..n |-> (page - 1) * PageLen + k]

\* _get_videos_from_uid 477-487: the listing request that resolves the
\* owner's display name; whatever it answers, the page loop follows.
scan_lookup_name ==
    /\ scan.stage = "name"
    /\ \E answer \in ListingAnswers :
          scanlog' = Append(scanlog, ListingRequest(NameLookupPs, 0, answer))
    /\ scan' = [scan EXCEPT !.stage = "pages"]
    /\ UNCHANGED <<ceiling, kept>>
    /\ UNCHANGED <<retryVars, coinVars, fleetVars, medalVars, userVars,
                   loopVars, pagerVars, groupVars>>

\* _get_videos_from_uid 489-505 and 531-533: the next page is requested;
\* a failed request and an empty page leave the loop.
scan_fetch_page ==
    /\ scan.stage = "pages"
    /\ scan.pending = <<>>
    /\ MorePages(scan, TargetCount(ceiling))
    /\ \E answer \in ListingAnswers :
          /\ scanlog' = Append(scanlog,
                 ListingRequest(ps, Len(scan.available), answer))
          /\ IF answer = "items"
             THEN \E n \in 1..PageLen :
                     scan' = [scan EXCEPT !.page = @ + 1,
                                          !.pending = PageAids(scan.page + 1, n)]
             ELSE scan' = [scan EXCEPT !.page = @ + 1, !.stage = "end"]
    /\ UNCHANGED <<ceiling, kept>>
    /\ UNCHANGED <<retryVars, coinVars, fleetVars, medalVars, userVars,
                   loopVars, pagerVars, groupVars>>

\* _get_videos_from_uid 508-526: the status of the page's next video is
\* queried; the query fails, or answers a video that takes no more coins,
\* or one that does.
scan_check_video ==
    /\ scan.stage = "pages"
    /\ scan.pending # <<>>
    /\ \E status \in {"error", "full", "available"} :
          IF status = "available"
          THEN LET av == Append(scan.available, Head(scan.pending))
               IN  scan' = [scan EXCEPT
                       !.available = av,
                       !.pending = IF Len(av) >= TargetCount(ceiling)
                                   THEN <<>> ELSE Tail(@)]
          ELSE scan' = [scan EXCEPT !.pending = Tail(@)]
    /\ UNCHANGED <<ceiling, scanlog, kept>>
    /\ UNCHANGED <<retryVars, coinVars, fleetVars, medalVars, userVars,
                   loopVars, pagerVars, groupVars>>

\* _get_videos_from_uid 539
scan_return ==
    /\ \/ scan.stage = "end"
       \/ /\ scan.stage = "pages"
          /\ scan.pending = <<>>
          /\ ~MorePages(scan, TargetCount(ceiling))
    /\ kept' = Take(scan.available, TargetCount(ceiling))
    /\ scan' = [scan EXCEPT !.stage = "returned"]
    /\ UNCHANGED <<ceiling, scanlog>>
    /\ UNCHANGED <<retryVars, coinVars, fleetVars, medalVars, userVars,
                   loopVars, pagerVars, groupVars>>

(***************************************************************************)
(* GroupService.sign_in_groups: the membership listing, then one sign-in   *)
(* per group                                                               *)
(***************************************************************************)
\* The most groups the remote lists.
MaxGroups == 2

\* self.api.u.mid, the account's own uid.
mid == 1

\* Remote: the groups a listing may hold, owned by the account or not.
MemberGroups == [group_id : 1..2, owner_uid : {mid, 2}]

GroupListings == SeqsUpTo(MemberGroups, MaxGroups)

\* A call of the loop: the request the API method transmits, the group of
\* the listing it was made for (0: none) with the arguments passed, and
\* whether it succeeded.
GroupCall(request, at, group_id, owner_id, ok) ==
    [req |-> request, at |-> at, group_id |-> group_id,
     owner_id |-> owner_id, ok |-> ok]

\* sign_in_groups 327-333: nothing is requested when SIGNINGROUP is off.
group_start ==
    /\ gpc = "start"
    /\ gpc' = IF SIGNINGROUP = 0 THEN "returned" ELSE "list"
    /\ UNCHANGED <<SIGNINGROUP, groups, gi, glog, group_count>>
    /\ UNCHANGED <<retryVars, coinVars, fleetVars, medalVars, userVars,
                   loopVars, scanVars, pagerVars>>

\* sign_in_groups 336 and 350-355, getGroups 317-328: the listing is
\* requested; an exception, or an answer without a list, ends the loop.
group_get_groups ==
    /\ gpc = "list"
    /\ \E ok \in BOOLEAN :
          /\ glog' = Append(glog, GroupCall(getGroups, 0, 0, 0, ok))
          /\ gpc' = IF ok THEN "loop" ELSE "returned"
    /\ UNCHANGED <<SIGNINGROUP, groups, gi, group_count>>
    /\ UNCHANGED <<retryVars, coinVars, fleetVars, medalVars, userVars,
                   loopVars, scanVars, pagerVars>>

\* sign_in_groups 337-348: a group the account owns is passed over; for
\* any other signInGroups is called with its group_id and owner_uid, and
\* an exception is logged and the next group follows.
group_sign_in ==
    /\ gpc = "loop"
    /\ gi <= Len(groups)
    /\ LET group == groups[gi]
       IN  IF group.owner_uid = mid
           THEN UNCHANGED <<glog, group_count>>
           ELSE \E ok \in BOOLEAN :
                   /\ glog' = Append(glog,
                          GroupCall(signInGroups, gi, group.group_id,
                                    group.owner_uid, ok))
                   /\ group_count' = IF ok THEN group_count + 1
                                     ELSE group_count
    /\ gi' = gi + 1
    /\ UNCHANGED <<gpc, SIGNINGROUP, groups>>
    /\ UNCHANGED <<retryVars, coinVars, fleetVars, medalVars, userVars,
                   loopVars, scanVars, pagerVars>>

\* sign_in_groups 357-360
group_return ==
    /\ gpc = "loop"
    /\ gi > Len(groups)
    /\ gpc' = "returned"
    /\ UNCHANGED <<SIGNINGROUP, groups, gi, glog, group_count>>
    /\ UNCHANGED <<retryVars, coinVars, fleetVars, medalVars, userVars,
                   loopVars, scanVars, pagerVars>>

(***************************************************************************)
(* BiliApi.getFansMedalandRoomID: the generator, page by page              *)
(***************************************************************************)
\* The page at which, at the latest, the remote answers an empty list.
MaxPages == 4

\* Remote: the ids of the n items of a page's list, and the item of a
\* special_list.
PageItems(page, n) == [k \in 1..n |-> (page - 1) * PageLen + k]

SpecialLists == {<<>>, <<0>>}

\* One request of the panel: the page asked for, whether _get returned,
\* and the list and special_list of the answer.
PanelPage(page, ok, list, special_list) ==
    [page |-> page, ok |-> ok, list |-> list, special_list |-> special_list]

Yield(item, from, page) == [item |-> item, from |-> from, page |-> page]

\* getFansMedalandRoomID 97: _get is awaited with params["page"]; it
\* returns a page or raises.
pager_request ==
    /\ pager.pc = "request"
    /\ \/ /\ fetched' = Append(fetched, PanelPage(pager.page, FALSE, <<>>, <<>>))
          /\ pager' = [pager EXCEPT !.pc = "raised"]
       \/ \E n \in 0..PageLen, sp \in SpecialLists :
             /\ pager.page >= MaxPages => n = 0
             /\ fetched' = Append(fetched,
                    PanelPage(pager.page, TRUE, PageItems(pager.page, n), sp))
             /\ pager' = [pager EXCEPT !.pc = "yield"]
    /\ UNCHANGED yielded
    /\ UNCHANGED <<retryVars, coinVars, fleetVars, medalVars, userVars,
                   loopVars, scanVars, groupVars>>

\* getFansMedalandRoomID 99
YieldsSpecial_EveryPage(first_flag, special_list) == special_list # <<>>

YieldsSpecial(first_flag, special_list) == first_flag /\ special_list # <<>>

\* getFansMedalandRoomID 99-111: the special_list is yielded while
\* first_flag holds, then the list; an empty list ends the generator,
\* any other moves to the next page.
pager_yield ==
    /\ pager.pc = "yield"
    /\ LET data    == fetched[Len(fetched)]
           special == YieldsSpecial(pager.first_flag, data.special_list)
       IN  /\ yielded' = yielded
                 \o (IF special
                     THEN [k \in 1..Len(data.special_list) |->
                              Yield(data.special_list[k], "special_list", data.page)]
                     ELSE <<>>)
                 \o [k \in 1..Len(data.list) |->
                        Yield(data.list[k], "list", data.page)]
           /\ pager' = [pc |-> IF data.list = <<>> THEN "done" ELSE "request",
                        page |-> IF data.list = <<>> THEN pager.page
                                 ELSE pager.page + 1,
                        first_flag |-> pager.first_flag /\ ~special]
    /\ UNCHANGED fetched
    /\ UNCHANGED <<retryVars, coinVars, fleetVars, medalVars, userVars,
                   loopVars, scanVars, groupVars>>

RetryIdle ==
    /\ rpc = "idle"
    /\ req = NoRequest
    /\ count = 0
    /\ isRetryable = FALSE
    /\ trace = <<>>
    /\ result = NoResult
    /\ raisedErr = NoError

CoinIdle ==
    /\ cpc = "start"
    /\ multiply = [a \in Aids |-> 0 - 1]
    /\ faults = 0
    /\ total_coins = 0
    /\ max_coins = 0
    /\ disc = NewDisc(<<>>, 1)
    /\ videos = <<>>
    /\ alloc = NewAlloc
    /\ reqlog = <<>>
    /\ coin_result = NoCoinResult

FleetIdle ==
    /\ fpc = At("construct")
    /\ users = <<>>
    /\ current_users = <<>>
    /\ acct = [k \in Accounts |-> NewAcct]
    /\ shutdown = FALSE
    /\ message_list = [collected |-> FALSE, lines |-> <<>>]
    /\ cleanup_task = "none"

MedalIdle ==
    /\ mpc = "init"
    /\ filtered = <<>>
    /\ user_medals = NoMedals
    /\ snapshots = <<>>
    /\ report = <<>>

NoLists ==
    /\ listing = <<>>
    /\ whiteList = <<0>>
    /\ bannedList = <<0>>

UserIdle ==
    /\ upc = "start"
    /\ task = [n \in TaskNames |-> NewTask]
    /\ ufaults = 0
    /\ token_seen = FALSE
    /\ requested_after_token = FALSE

ScanIdle ==
    /\ ceiling = 0
    /\ scan = NewScan
    /\ scanlog = <<>>
    /\ kept = <<>>

PagerIdle ==
    /\ pager = [pc |-> "idle", page |-> 1, first_flag |-> TRUE]
    /\ fetched = <<>>
    /\ yielded = <<>>

GroupIdle ==
    /\ gpc = "idle"
    /\ SIGNINGROUP = 2
    /\ groups = <<>>
    /\ gi = 1
    /\ glog = <<>>
    /\ group_count = 0

LoopIdle ==
    /\ service = "none"
    /\ lmedals = <<>>
    /\ lcfg = [ASYNC |-> 1, WEARMEDAL |-> 1]
    /\ lpos = LoopAt("none", 1, 1)
    /\ llog = <<>>
    /\ success_count = 0

NoInputs ==
    [need_do |-> 0, living |-> 0, no_living |-> 0, groups |-> 0,
     coin_uid |-> FALSE, WEARMEDAL |-> 1]

NoConfig ==
    [coin_uid |-> <<>>, coin_remain |-> 0, coin_max |-> 0,
     coin_max_per_uid |-> 0, white_list |-> <<0>>, banned_list |-> <<0>>]

\* One BiliApi: its methods are called one after the other.
InitRetry ==
    /\ RetryIdle
    /\ CoinIdle /\ config = NoConfig /\ wallet = 0
    /\ FleetIdle /\ users_config = <<>>
    /\ MedalIdle /\ NoLists
    /\ UserIdle /\ ucfg = NoInputs
    /\ LoopIdle
    /\ ScanIdle /\ PagerIdle /\ GroupIdle

NextRetry ==
    \/ \E r \in WrappedRequests : Call(r)
    \/ \E resp \in Responses : wrapper(resp)
    \/ \E resp \in DanmakuResponses : SendDanmaku(resp)

SpecRetry == InitRetry /\ [][NextRetry]_vars

\* One allocation run, for every configuration and balance tried.
InitCoin ==
    /\ RetryIdle
    /\ CoinIdle
    /\ wallet \in 0..MaxBalance
    /\ \E uids \in CoinUidConfigs, l \in ListConfigs, r \in CoinRemains,
          m \in CoinMaxes, p \in CoinMaxPerUids :
          config = [coin_uid |-> uids, coin_remain |-> r, coin_max |-> m,
                    coin_max_per_uid |-> p, white_list |-> l.white,
                    banned_list |-> l.banned]
    /\ FleetIdle /\ users_config = <<>>
    /\ MedalIdle /\ NoLists
    /\ UserIdle /\ ucfg = NoInputs
    /\ LoopIdle
    /\ ScanIdle /\ PagerIdle /\ GroupIdle

NextCoin ==
    \/ coin_videos
    \/ LookupName
    \/ FetchPage
    \/ CheckVideo
    \/ EndOwner
    \/ get_videos_done
    \/ CoinVideo
    \/ NextUp
    \/ coin_return

SpecCoin == InitCoin /\ [][NextCoin]_vars

\* One run of the fleet, for every list of configured entries.
Init ==
    /\ RetryIdle
    /\ CoinIdle /\ config = NoConfig /\ wallet = 0
    /\ FleetIdle
    /\ users_config \in [Accounts -> UserConfigs]
    /\ MedalIdle /\ NoLists
    /\ UserIdle /\ ucfg = NoInputs
    /\ LoopIdle
    /\ ScanIdle /\ PagerIdle /\ GroupIdle

Next ==
    \/ initialize_users
    \/ gather_init
    \/ \E u \in Accounts : init(u)
    \/ gather_start
    \/ \E u \in Accounts : start(u)
    \/ gather_msg
    \/ \E u \in Accounts : send_msg(u)
    \/ collect
    \/ cleanup_users
    \/ _signal_handler

Spec == Init /\ [][Next]_vars

\* One account's medals, for every listing and every list configuration
\* tried: fetched in start(), fetched again and reported in send_msg().
InitMedal ==
    /\ RetryIdle
    /\ CoinIdle /\ config = NoConfig /\ wallet = 0
    /\ FleetIdle /\ users_config = <<>>
    /\ MedalIdle
    /\ listing \in Listings
    /\ \E l \in MedalListConfigs :
          whiteList = l.white /\ bannedList = l.banned
    /\ UserIdle /\ ucfg = NoInputs
    /\ LoopIdle
    /\ ScanIdle /\ PagerIdle /\ GroupIdle

NextMedal ==
    \/ get_medals
    \/ stats_execute

SpecMedal == InitMedal /\ [][NextMedal]_vars

\* One logged-in account from start() to its report phase, for every input
\* tried.
InitUser ==
    /\ RetryIdle
    /\ CoinIdle /\ config = NoConfig /\ wallet = 0
    /\ FleetIdle /\ users_config = <<>>
    /\ MedalIdle /\ NoLists
    /\ UserIdle
    /\ ucfg \in UserInputs
    /\ LoopIdle
    /\ ScanIdle /\ PagerIdle /\ GroupIdle

NextUser ==
    \/ start_get_medals
    \/ coin_service_execute
    \/ start_gather
    \/ like_medals
    \/ watch_medals
    \/ send_danmaku_to_medals
    \/ sign_in_groups
    \/ start_return
    \/ report_phase

SpecUser == InitUser /\ [][NextUser]_vars

\* One execute() of a like, heartbeat or comment service, for every list
\* of medals and every setting tried.
InitLoop ==
    /\ RetryIdle
    /\ CoinIdle /\ config = NoConfig /\ wallet = 0
    /\ FleetIdle /\ users_config = <<>>
    /\ MedalIdle /\ NoLists
    /\ UserIdle /\ ucfg = NoInputs
    /\ ScanIdle /\ PagerIdle /\ GroupIdle
    /\ service \in Services
    /\ lmedals \in MedalLists
    /\ lcfg \in LoopConfigs
    /\ lpos = LoopAt("running", 1, FirstRound(service, lcfg))
    /\ llog = <<>>
    /\ success_count = 0

NextLoop ==
    \/ like_call
    \/ like_reply
    \/ heartbeat_call
    \/ heartbeat_reply
    \/ danmaku_call
    \/ danmaku_reply
    \/ execute_return

SpecLoop == InitLoop /\ [][NextLoop]_vars

\* One _get_videos_from_uid call, for every coin_max_per_uid tried and every
\* way the remote may answer; the coroutine is not suspended forever.
InitScan ==
    /\ RetryIdle
    /\ CoinIdle /\ config = NoConfig /\ wallet = 0
    /\ FleetIdle /\ users_config = <<>>
    /\ MedalIdle /\ NoLists
    /\ UserIdle /\ ucfg = NoInputs
    /\ LoopIdle
    /\ PagerIdle /\ GroupIdle
    /\ ceiling \in 0..MaxCeiling
    /\ scan = NewScan
    /\ scanlog = <<>>
    /\ kept = <<>>

NextScan ==
    \/ scan_lookup_name
    \/ scan_fetch_page
    \/ scan_check_video
    \/ scan_return

SpecScan == InitScan /\ [][NextScan]_vars /\ WF_vars(NextScan)

\* One getFansMedalandRoomID generator run to its end, for every sequence
\* of pages the remote may answer; the consumer keeps asking for items.
InitPager ==
    /\ RetryIdle
    /\ CoinIdle /\ config = NoConfig /\ wallet = 0
    /\ FleetIdle /\ users_config = <<>>
    /\ MedalIdle /\ NoLists
    /\ UserIdle /\ ucfg = NoInputs
    /\ LoopIdle
    /\ ScanIdle /\ GroupIdle
    /\ pager = [pc |-> "request", page |-> 1, first_flag |-> TRUE]
    /\ fetched = <<>>
    /\ yielded = <<>>

NextPager ==
    \/ pager_request
    \/ pager_yield

SpecPager == InitPager /\ [][NextPager]_vars /\ WF_vars(NextPager)

\* One sign_in_groups call, for every membership listing and setting tried.
InitGroup ==
    /\ RetryIdle
    /\ CoinIdle /\ config = NoConfig /\ wallet = 0
    /\ FleetIdle /\ users_config = <<>>
    /\ MedalIdle /\ NoLists
    /\ UserIdle /\ ucfg = NoInputs
    /\ LoopIdle
    /\ ScanIdle /\ PagerIdle
    /\ gpc = "start"
    /\ SIGNINGROUP \in {0, 2}
    /\ groups \in GroupListings
    /\ gi = 1
    /\ glog = <<>>
    /\ group_count = 0

NextGroup ==
    \/ group_start
    \/ group_get_groups
    \/ group_sign_in
    \/ group_return

SpecGroup == InitGroup /\ [][NextGroup]_vars

(***************************************************************************)
(* Properties of the retrying client (SpecRetry)                           *)
(***************************************************************************)
\* The current call goes through the decorated _get/_post.
ThroughWrapper == req.verb \in {"get", "post"}

AttemptsOf == SelectSeq(trace, LAMBDA x : x.ev = "attempt")

CooldownSleeps ==
    Len(SelectSeq(trace, LAMBDA x : x.ev = "sleep" /\ x.secs = RateLimitSleep))

IsCode(e, c) == e.type = "BiliApiError" /\ e.code = c

IsOtherCode(e) ==
    /\ e.type = "BiliApiError"
    /\ e.code \notin {0, TOKEN_ERROR, RATE_LIMIT, SERVER_ERROR}

AllRateLimited(sq) == \A k \in 1..Len(sq) : IsCode(sq[k].err, RATE_LIMIT)

\* C1: an attempt that fails with TOKEN_ERROR is the last event of the call:
\* no attempt and no sleep follows it, the call has raised, and the raised
\* exception is the very one of that attempt.
C1_TokenErrorEndsCall ==
    ThroughWrapper =>
        \A k \in 1..Len(trace) :
            (trace[k].ev = "attempt" /\ IsCode(trace[k].err, TOKEN_ERROR))
            => /\ k = Len(trace)
               /\ rpc = "raised"
               /\ raisedErr = trace[k].err

C1_Witness ==
    /\ ThroughWrapper
    /\ rpc = "raised"
    /\ Len(trace) = 1
    /\ IsCode(trace[1].err, TOKEN_ERROR)

\* C2: after k <= tries rate-limited attempts and nothing else the call is
\* still going and has slept the 10 s cooldown k times; when the next attempt
\* succeeds the call returns that attempt's data, with k cooldowns slept.
C2_RateLimitedThenSuccess ==
    ThroughWrapper =>
        LET a == AttemptsOf
            n == Len(a)
        IN  /\ (n <= tries /\ AllRateLimited(a))
               => (rpc = "call" /\ CooldownSleeps = n)
            /\ (/\ n >= 1
                /\ n - 1 <= tries
                /\ a[n].err = NoError
                /\ AllRateLimited(SubSeq(a, 1, n - 1)))
               => /\ rpc = "returned"
                  /\ result = a[n].value
                  /\ CooldownSleeps = n - 1

C2_Witness ==
    /\ ThroughWrapper
    /\ rpc = "returned"
    /\ Len(AttemptsOf) = tries + 1
    /\ AllRateLimited(SubSeq(AttemptsOf, 1, tries))
    /\ CooldownSleeps = tries

\* C3: a call makes at most tries + 1 = 4 attempts, is over once it has made
\* them, and whenever it has raised, the exception raised is the one of the
\* last attempt.
C3_BoundedAttempts ==
    ThroughWrapper =>
        /\ Attempts <= tries + 1
        /\ Attempts = tries + 1 => rpc \in {"returned", "raised"}
        /\ rpc = "raised" => raisedErr = AttemptsOf[Attempts].err

C3_Witness ==
    /\ ThroughWrapper
    /\ rpc = "raised"
    /\ Attempts = tries + 1
    /\ \A k \in 1..Attempts :
          \/ IsCode(AttemptsOf[k].err, RATE_LIMIT)
          \/ IsCode(AttemptsOf[k].err, SERVER_ERROR)

\* C4: an attempt that fails with a non-zero status other than TOKEN_ERROR,
\* RATE_LIMIT and SERVER_ERROR is the last event of the call, and the call
\* has raised that attempt's exception.
C4_OtherStatusEndsCall ==
    ThroughWrapper =>
        \A k \in 1..Len(trace) :
            (trace[k].ev = "attempt" /\ IsOtherCode(trace[k].err))
            => /\ k = Len(trace)
               /\ rpc = "raised"
               /\ raisedErr = trace[k].err

C4_Witness ==
    /\ ThroughWrapper
    /\ rpc = "raised"
    /\ Len(trace) > 1
    /\ IsOtherCode(trace[Len(trace)].err)

\* The methods that change remote state.
MutatingApis ==
    {"likeInteract", "likeInteractV3", "shareRoom", "sendDanmaku",
     "heartbeat", "wearMedal", "signInGroups", "coinVideo"}

\* C5: every transmitted request of a method that changes remote state
\* carries the signature parameter.
C5_MutatingRequestsSigned ==
    (Attempts > 0 /\ req.api \in MutatingApis)
    => "sign" \in (req.params \cup req.data)

\* C35: a comment send that ended with the RATE_LIMIT or SERVER_ERROR
\* exception was attempted as often as the attempt budget allows.
C35_CommentSendIsRetried ==
    (req.api = "sendDanmaku" /\ rpc = "raised"
        /\ (IsCode(raisedErr, RATE_LIMIT) \/ IsCode(raisedErr, SERVER_ERROR)))
    => Attempts = tries + 1

(***************************************************************************)
(* Properties of the allocation run (SpecCoin)                             *)
(***************************************************************************)
RECURSIVE SumAmounts(_)
SumAmounts(sq) ==
    IF sq = <<>> THEN 0 ELSE sq[1].amount + SumAmounts(Tail(sq))

\* The spend requests the remote accepted among the first n requests.
Spends(n) ==
    SelectSeq(SubSeq(reqlog, 1, n), LAMBDA r : r.api = "coinVideo" /\ r.ok)

Spent == SumAmounts(Spends(Len(reqlog)))

SpentOn(uid, n) ==
    SumAmounts(SelectSeq(Spends(n), LAMBDA r : r.uid = uid))

\* C6: at every point of the run the coins spent, as counted by the run and
\* as accepted by the remote, are at most balance - reserve, and at most
\* coin_max when coin_max > 0.
C6_SpendWithinBudget ==
    /\ alloc.success_count = Spent
    /\ Spent > 0 =>
          /\ Spent <= total_coins - config.coin_remain
          /\ config.coin_max > 0 => Spent <= config.coin_max

C6_Witness ==
    /\ cpc = "done"
    /\ config.coin_max > 0
    /\ total_coins - config.coin_remain > config.coin_max
    /\ Spent = config.coin_max
    /\ Len(Spends(Len(reqlog))) > 1

\* C7: with coin_max_per_uid > 0 no owner has received more than that, and
\* every spend request for an owner's video was issued while that owner was
\* still below the ceiling.
C7_PerOwnerCeiling ==
    config.coin_max_per_uid > 0 =>
        \A u \in Owners :
            /\ SpentOn(u, Len(reqlog)) <= config.coin_max_per_uid
            /\ Get(alloc.uid_coin_count, u) <= config.coin_max_per_uid
            /\ \A k \in 1..Len(reqlog) :
                   (reqlog[k].api = "coinVideo" /\ reqlog[k].uid = u)
                   => SpentOn(u, k - 1) < config.coin_max_per_uid

\* Owner 2 reached its ceiling with its first video, its second video was
\* left alone, and the run went on to spend on owner 1.
C7_Witness ==
    /\ cpc = "done"
    /\ config.coin_max_per_uid = 2
    /\ config.coin_uid = <<2, 1>>
    /\ Len(up_videos(videos, 2)) = 2
    /\ SpentOn(2, Len(reqlog)) = 2
    /\ Len(SelectSeq(reqlog, LAMBDA r : r.api = "coinVideo" /\ r.uid = 2)) = 1
    /\ SpentOn(1, Len(reqlog)) > 0

C9_NothingSpendableStops ==
    (/\ Len(reqlog) >= 1
     /\ reqlog[1].api = "getMyInfo"
     /\ reqlog[1].ok
     /\ total_coins <= config.coin_remain)
    => /\ cpc = "done"
       /\ Len(reqlog) = 1
       /\ wallet = total_coins
       /\ coin_result.success_count = 0
       /\ coin_result.up_stats = <<>>

C9_Witness ==
    /\ cpc = "done"
    /\ Len(reqlog) = 1
    /\ reqlog[1].ok
    /\ config.coin_uid # <<>>
    /\ total_coins = config.coin_remain
    /\ total_coins > 0

(***************************************************************************)
(* Properties of the fleet run (Spec)                                      *)
(***************************************************************************)
\* C10: when run() has returned, no account session that was opened is
\* still open.
C10_SessionsClosedOnReturn ==
    fpc.at = "returned" => \A k \in Accounts : acct[k].session # "open"

\* The accounts initialize_users constructed: their sessions were opened.
Constructed == {k \in Accounts : acct[k].session # "none"}

\* C11: the close of an account's session is never invoked a second time,
\* and when run() has returned it has been invoked exactly once for every
\* account that was constructed, an account whose login failed included.
C11_SessionClosedExactlyOnce ==
    \A k \in Accounts :
        /\ acct[k].closes <= 1
        /\ (fpc.at = "returned" /\ k \in Constructed) => acct[k].closes = 1

\* C12: when the process has been ended by the shutdown signal, the cleanup
\* has been run, not merely scheduled, and no session of the running
\* accounts is left open.
C12_CleanupRunsBeforeExit ==
    fpc.at = "killed" =>
        /\ cleanup_task = "ran"
        /\ \A k \in Range(current_users) : acct[k].session # "open"

\* sub occurs in sq as a run of consecutive lines.
Contains(sq, sub) ==
    \E i \in 1..(Len(sq) - Len(sub) + 1) :
        SubSeq(sq, i, i + Len(sub) - 1) = sub

\* The account is past init and its login failed.
LoginHasFailed(k) ==
    /\ acct[k].phase \in {"init_done", "start_done", "msg_done"}
    /\ ~acct[k].is_login

\* C18: an account whose login failed issues no request and runs no task
\* afterwards; every logged-in account, whatever happened to the others,
\* has run its tasks once its start has returned, and once the reports are
\* collected its block, if its report phase produced one, is part of the
\* aggregated report.
C18_LoginFailureFatalForThatAccountOnly ==
    \A k \in Range(users) :
        /\ LoginHasFailed(k) =>
               (acct[k].requests = 0 /\ acct[k].tasks = "none")
        /\ (/\ acct[k].is_login
             /\ acct[k].phase = "start_done"
             /\ acct[k].outcome = "started") => acct[k].tasks = "ran"
        /\ (/\ acct[k].is_login
             /\ message_list.collected
             /\ acct[k].outcome = "reported")
            => /\ acct[k].block # <<>>
               /\ Contains(message_list.lines, acct[k].block)

\* Account 1 failed its login; account 2 ran its tasks and its block is in
\* the aggregated report.
C18_Witness ==
    /\ message_list.collected
    /\ users = <<1, 2>>
    /\ LoginHasFailed(1)
    /\ acct[1].requests = 0
    /\ acct[2].is_login
    /\ acct[2].tasks = "ran"
    /\ acct[2].outcome = "reported"
    /\ Contains(message_list.lines, acct[2].block)

\* C19: the aggregated report lists the accounts' lines in account-listing
\* order, it is the blocks one after the other, and every block, the one of
\* an account whose login failed included, ends with the separator line.
C19_BlocksInOrderEndWithSeparator ==
    message_list.collected =>
        /\ message_list.lines = chain(users)
        /\ \A i, j \in 1..Len(message_list.lines) :
               (/\ i < j
                /\ message_list.lines[i].k # 0
                /\ message_list.lines[j].k # 0)
               => message_list.lines[i].k <= message_list.lines[j].k
        /\ \A k \in Range(users) :
               acct[k].outcome = "reported" =>
                   /\ acct[k].block # <<>>
                   /\ acct[k].block[Len(acct[k].block)] = Separator

(***************************************************************************)
(* Properties of the medal filter, the classification and the report       *)
(* (SpecMedal)                                                             *)
(***************************************************************************)
\* How many times x occurs in sq.
Occurrences(sq, x) == Cardinality({i \in 1..Len(sq) : sq[i] = x})

InNoBucket(m) ==
    /\ Occurrences(user_medals.medalsNeedDo, m) = 0
    /\ Occurrences(user_medals.medalsOthers, m) = 0
    /\ Occurrences(user_medals.medalsLiving, m) = 0
    /\ Occurrences(user_medals.medalsNoLiving, m) = 0

\* Each occurrence of m in the listing is in exactly one of the buckets
\* a and b.
InExactlyOneOf(m, a, b) ==
    /\ Occurrences(a, m) + Occurrences(b, m) = Occurrences(listing, m)
    /\ Occurrences(a, m) = 0 \/ Occurrences(b, m) = 0

InOneScoreBucket(m) ==
    InExactlyOneOf(m, user_medals.medalsNeedDo, user_medals.medalsOthers)

InOneLivenessBucket(m) ==
    InExactlyOneOf(m, user_medals.medalsLiving, user_medals.medalsNoLiving)

DenyFive == whiteList = <<0>> /\ bannedList = <<5>>

\* C13 as stated: with allow-list [0] and deny-list [5], the items of owner
\* 5 are in no bucket and every other item with a room is in exactly one
\* liveness bucket and in exactly one score bucket.
C13_EveryItemInOneLivenessBucket ==
    (mpc # "init" /\ DenyFive) =>
        \A m \in Range(listing) :
            IF m.target_id = 5 THEN InNoBucket(m)
            ELSE m.room_id # 0 =>
                    (InOneLivenessBucket(m) /\ InOneScoreBucket(m))

\* C13, amended: with allow-list [0] and deny-list [5], the items of owner
\* 5 are in no bucket; every other item with a room is in exactly one score
\* bucket, in exactly one liveness bucket when it is unlit, and in neither
\* liveness bucket when it is lit.
C13_UnlitItemsInOneLivenessBucket ==
    (mpc # "init" /\ DenyFive) =>
        \A m \in Range(listing) :
            IF m.target_id = 5 THEN InNoBucket(m)
            ELSE m.room_id # 0 =>
                    /\ InOneScoreBucket(m)
                    /\ IF m.is_lighted = 0
                       THEN InOneLivenessBucket(m)
                       ELSE /\ Occurrences(user_medals.medalsLiving, m) = 0
                            /\ Occurrences(user_medals.medalsNoLiving, m) = 0

\* A denied item that has a room was dropped, and an unlit item of another
\* owner was classified.
C13_Witness ==
    /\ mpc # "init"
    /\ DenyFive
    /\ \E m \in Range(listing) : m.target_id = 5 /\ m.room_id # 0
    /\ \E m \in Range(listing) :
          /\ m.target_id # 5
          /\ m.is_lighted = 0
          /\ Occurrences(user_medals.medalsLiving, m) = 1

DenyLists == {<<0>>, <<5>>, <<7>>, <<9>>, <<7, 9>>, <<5, 7, 9>>}

\* C14: with an allow-list other than [0], the filtered list is the items
\* with a room whose owner is allow-listed, in listing order, and filtering
\* with any other deny-list gives the same list.
C14_AllowListIgnoresDenyList ==
    (mpc # "init" /\ whiteList # <<0>>) =>
        /\ filtered = SelectSeq(listing,
                LAMBDA m : m.room_id # 0 /\ m.target_id \in Range(whiteList))
        /\ \A d \in DenyLists :
               get_all_medals(listing, whiteList, d) = filtered

\* An allow-listed owner is also named by the deny-list, and its item is
\* kept while another owner's item is dropped.
C14_Witness ==
    /\ mpc # "init"
    /\ whiteList = <<7, 9>>
    /\ bannedList = <<7>>
    /\ \E m \in Range(filtered) : m.target_id = 7
    /\ \E m \in Range(listing) : m.target_id = 5 /\ m.room_id # 0

InScenario ==
    /\ mpc = "reported"
    /\ listing = Scenario
    /\ whiteList = <<0>>
    /\ bannedList = <<0>>

\* The names a report line of the given label lists (none without a line).
Named(label) ==
    UNION {Range(report[i].names) : i \in {j \in 1..Len(report) :
                                              report[j].label = label}}

NamedAnywhere == UNION {Range(report[i].names) : i \in 1..Len(report)}

C16_ReclassifyIdempotent ==
    Len(snapshots) = 2 =>
        /\ snapshots[2] = snapshots[1]
        /\ user_medals = snapshots[1]

\* Two items share a bucket, so that the order within it shows.
C16_Witness ==
    /\ Len(snapshots) = 2
    /\ Len(user_medals.medalsNeedDo) = 2
    /\ user_medals.medalsNeedDo[1] # user_medals.medalsNeedDo[2]
    /\ Len(user_medals.medalsNoLiving) = 1

\* C23: no like request is for a medal whose today_feed was 30 or more when
\* the account classified its medals: every medal handed to the like task
\* is in medalsNeedDo and in medalsLiving.
C23_LikeTargetsNeedEngagement ==
    mpc # "init" =>
        \A m \in Range(like_targets(user_medals)) :
            /\ m.today_feed < DailyCap
            /\ m \in Range(user_medals.medalsNeedDo)
            /\ m \in Range(user_medals.medalsLiving)

\* C27: over the filtered list, every item is in medalsNeedDo when its
\* today_feed is below 30 and in medalsOthers otherwise, never in both; an
\* unlit item is in medalsLiving when its living_status is 1 and in
\* medalsNoLiving otherwise; a lit item is in neither; and the buckets hold
\* nothing but items of the filtered list.
C27_TwoIndependentPartitions ==
    mpc # "init" =>
        /\ \A m \in Range(filtered) :
              LET n == Occurrences(filtered, m)
                  unlit == m.is_lighted = 0
                  live == m.living_status = 1
              IN  /\ Occurrences(user_medals.medalsNeedDo, m) =
                        (IF m.today_feed < DailyCap THEN n ELSE 0)
                  /\ Occurrences(user_medals.medalsOthers, m) =
                        (IF m.today_feed < DailyCap THEN 0 ELSE n)
                  /\ Occurrences(user_medals.medalsLiving, m) =
                        (IF unlit /\ live THEN n ELSE 0)
                  /\ Occurrences(user_medals.medalsNoLiving, m) =
                        (IF unlit /\ ~live THEN n ELSE 0)
        /\ \A b \in {user_medals.medalsNeedDo, user_medals.medalsOthers,
                      user_medals.medalsLiving, user_medals.medalsNoLiving} :
              Range(b) \subseteq Range(filtered)

\* An unlit item whose room replays on a loop went to medalsNoLiving, next
\* to a lit item that is in neither liveness bucket.
C27_Witness ==
    /\ mpc # "init"
    /\ Len(filtered) = 2
    /\ filtered[1].is_lighted = 0 /\ filtered[1].living_status = 2
    /\ filtered[2].is_lighted = 1 /\ filtered[2].today_feed >= DailyCap
    /\ user_medals.medalsNoLiving = <<filtered[1]>>
    /\ user_medals.medalsLiving = <<>>
    /\ user_medals.medalsOthers = <<filtered[2]>>

\* a is b with some of its elements left out.
RECURSIVE IsSubseq(_, _)
IsSubseq(a, b) ==
    IF a = <<>> THEN TRUE
    ELSE IF b = <<>> THEN FALSE
    ELSE IF a[1] = b[1] THEN IsSubseq(Tail(a), Tail(b))
    ELSE IsSubseq(a, Tail(b))

\* The spend requests of the run in the order issued, accepted or not, and
\* the video each one is for.
SpendRequests == SelectSeq(reqlog, LAMBDA r : r.api = "coinVideo")

AidsOf(sq) == [k \in 1..Len(sq) |-> sq[k].aid]

\* The owner's place in the configured list, after filtering.
OwnerRank(uid) ==
    LET targets == _get_coin_target_uids(config)
    IN  CHOOSE k \in 1..Len(targets) :
            targets[k] = uid /\ \A h \in 1..(k - 1) : targets[h] # uid

\* C30: the spend requests go to configured owners, in the order the
\* owners are configured; those for one owner's videos are in the order
\* the videos were discovered; and after the accepted spends have reached
\* max_coins neither a status query nor a spend request follows.
C30_SpendInOwnerThenDiscoveryOrder ==
    /\ \A k \in 1..Len(SpendRequests) :
          SpendRequests[k].uid \in Range(_get_coin_target_uids(config))
    /\ \A i, j \in 1..Len(SpendRequests) :
          i < j => OwnerRank(SpendRequests[i].uid)
                      <= OwnerRank(SpendRequests[j].uid)
    /\ \A u \in Owners :
          IsSubseq(AidsOf(SelectSeq(SpendRequests, LAMBDA r : r.uid = u)),
                   AidsOf(SelectSeq(videos, LAMBDA v : v._coin_uid = u)))
    /\ \A k \in 2..Len(reqlog) :
          (Spends(k - 1) # <<>> /\ SumAmounts(Spends(k - 1)) >= max_coins)
          => reqlog[k].api \notin {"getVideoCoinsStatus", "coinVideo"}

\* Owner 2 is configured before owner 1: both videos of owner 2 were spent
\* on in discovery order, then the video of owner 1, which used up the
\* budget.
C30_Witness ==
    /\ cpc = "done"
    /\ config.coin_uid = <<2, 1>>
    /\ AidsOf(SpendRequests) = <<21, 22, 11>>
    /\ Spent = max_coins

RECURSIVE SumStats(_, _)
SumStats(stats, uids) ==
    IF uids = {} THEN 0
    ELSE LET u == CHOOSE x \in uids : TRUE
         IN  stats[u] + SumStats(stats, uids \ {u})

BalanceQueried ==
    \E k \in 1..Len(reqlog) : reqlog[k].api = "getMyInfo" /\ reqlog[k].ok

\* C38: at every point of the spending, the per-owner counts of the
\* breakdown add up to the total counted, each owner's count is what the
\* remote accepted for that owner and the total what it accepted in all (a
\* spend request that failed counts nowhere); and the run that queried the
\* balance returns that total, that breakdown, and the queried balance less
\* the total.
C38_BreakdownAddsUpToTotal ==
    /\ cpc \in {"spend", "done"} =>
          /\ SumStats(alloc.up_stats, DOMAIN alloc.up_stats)
                = alloc.success_count
          /\ alloc.success_count = Spent
          /\ \A u \in Owners :
                Get(alloc.up_stats, u) = SpentOn(u, Len(reqlog))
    /\ (cpc = "done" /\ BalanceQueried) =>
          /\ coin_result.success_count = Spent
          /\ coin_result.up_stats = alloc.up_stats
          /\ coin_result.total_coins = total_coins - Spent

\* A run that spent on both owners, three units in all, and had one spend
\* request refused.
C38_Witness ==
    /\ cpc = "done"
    /\ \E k \in 1..Len(reqlog) :
          reqlog[k].api = "coinVideo" /\ ~reqlog[k].ok
    /\ \A u \in Owners : SpentOn(u, Len(reqlog)) > 0
    /\ coin_result.success_count = 3

(***************************************************************************)
(* Properties of one owner's discovery (SpecScan)                          *)
(***************************************************************************)
\* The requests of the page loop: those that ask for ps items.
PagedRequests == SelectSeq(scanlog, LAMBDA r : r.ps = ps)

EnoughFor(c) == IF c > 0 THEN c ELSE 5

PagesWithinCap ==
    /\ Len(PagedRequests) = scan.page
    /\ Len(PagedRequests) <= 5
    /\ Len(scanlog) <= Len(PagedRequests) + 1
    /\ \A k \in 1..Len(scanlog) :
          scanlog[k].ps = ps =>
             /\ scanlog[k].have < EnoughFor(ceiling)
             /\ scanlog[k].answer \in {"fail", "empty"} => k = Len(scanlog)

Processed == IF pager.pc = "yield" THEN Len(fetched) - 1 ELSE Len(fetched)

RECURSIVE ListsUpTo(_)
\* The lists of the first n pages, one after the other.
ListsUpTo(n) == IF n = 0 THEN <<>> ELSE ListsUpTo(n - 1) \o fetched[n].list

YieldedFrom(from) == SelectSeq(yielded, LAMBDA y : y.from = from)

PagesInOrderItemsOnce ==
    /\ \A k \in 1..Len(fetched) : fetched[k].page = k
    /\ \A k \in 1..(Len(fetched) - 1) :
          fetched[k].ok /\ fetched[k].list # <<>>
    /\ pager.pc = "done" =>
          fetched[Len(fetched)].ok /\ fetched[Len(fetched)].list = <<>>
    /\ [k \in 1..Len(YieldedFrom("list")) |-> YieldedFrom("list")[k].item]
          = ListsUpTo(Processed)
    /\ \A i, j \in 1..Len(yielded) : i < j => yielded[i].page <= yielded[j].page
    /\ \/ YieldedFrom("special_list") = <<>>
       \/ \E k \in 1..Processed :
             [i \in 1..Len(YieldedFrom("special_list")) |->
                 YieldedFrom("special_list")[i].item] = fetched[k].special_list

\* C32: the generator asks for pages 1, 2, 3, ... in order and for none
\* after a page whose list was empty; what it yields from the lists is the
\* lists of the pages it went through, one after the other; what it yields
\* from special lists is nothing or one page's special_list, once; and
\* against a remote that answers an empty list at some page it ends.
C32_PagesInOrderUntilEmpty ==
    []PagesInOrderItemsOnce /\ <>(pager.pc \in {"done", "raised"})

\* Three pages were asked for, the first two carried a special_list and
\* items, and the generator ended on the empty third.
C32_Witness ==
    /\ pager.pc = "done"
    /\ Len(fetched) = 3
    /\ fetched[1].special_list # <<>>
    /\ fetched[2].special_list # <<>>
    /\ Len(yielded) > 3

(***************************************************************************)
(* Properties of the group sign-in loop (SpecGroup)                        *)
(***************************************************************************)
\* The sign-in calls made for the i-th group of the listing.
SignInsFor(i) ==
    {k \in 1..Len(glog) : glog[k].req.api = "signInGroups" /\ glog[k].at = i}

ListingWalked ==
    /\ gpc = "returned"
    /\ \E k \in 1..Len(glog) : glog[k].req.api = "getGroups" /\ glog[k].ok

\* Every group of the listing not owned by the account has had one sign-in
\* call, made with its ids, failed or not, and a group the account owns
\* none.
OneCallPerForeignGroup ==
    ListingWalked =>
       \A i \in 1..Len(groups) :
          IF groups[i].owner_uid = mid
          THEN SignInsFor(i) = {}
          ELSE /\ Cardinality(SignInsFor(i)) = 1
               /\ \A k \in SignInsFor(i) :
                     /\ glog[k].group_id = groups[i].group_id
                     /\ glog[k].owner_id = groups[i].owner_uid

\* C33: when the listing was walked, every group not owned by the account
\* has had exactly one sign-in request, whether or not an earlier one
\* failed, a group the account owns has had none, and every sign-in
\* request transmits the group id and the owner id of its group.
C33_OneIdentifyingSignInPerGroup ==
    /\ OneCallPerForeignGroup
    /\ \A k \in 1..Len(glog) :
          glog[k].req.api = "signInGroups" =>
             {"group_id", "owner_id"} \subseteq glog[k].req.params

(***************************************************************************)
(* Properties of the fleet's report and of the login (Spec)                *)
(***************************************************************************)
\* C25: once the messages are collected, the aggregated report has a line
\* of every logged-in account that was run, the account whose send_msg
\* raised included.
C25_EveryRunAccountIsReported ==
    message_list.collected =>
        \A k \in Range(users) :
            acct[k].is_login =>
                \E i \in 1..Len(message_list.lines) :
                    message_list.lines[i].k = k

\* C26: an account whose loginVerift answered a non-zero mid is logged in
\* after init whatever getUserInfo and getMedalsInfoByUid answered, and its
\* start goes on to the medal fetch.
C26_LaterLookupFailureIsNotFatal ==
    \A k \in Range(users) :
        acct[k].answers.verify = "mid" =>
            /\ acct[k].is_login
            /\ acct[k].phase \in {"start_done", "msg_done"} =>
                   acct[k].requests > 0

\* C36: an account has been through start only when every account has been
\* through init, and through send_msg only when every account has been
\* through start.
C36_PhasesBarrierSeparated ==
    \A u, k \in Range(users) :
        /\ acct[u].phase \in {"start_done", "msg_done"} =>
               acct[k].phase \in {"init_done", "start_done", "msg_done"}
        /\ acct[u].phase = "msg_done" =>
               acct[k].phase \in {"start_done", "msg_done"}

\* Within the start phase the second account ran before the first, after
\* both went through init.
C36_Witness ==
    /\ Len(users) = 2
    /\ fpc.at = "start"
    /\ acct[users[2]].phase = "start_done"
    /\ acct[users[2]].tasks = "ran"
    /\ acct[users[1]].phase = "init_done"
    /\ acct[users[1]].is_login

AtEnd(n) ==
    CASE n = "like" -> task[n].item > LikeRounds
      [] n = "heartbeat" -> task[n].item > ucfg.need_do
      [] n = "danmaku" -> task[n].item > ucfg.no_living
      [] n = "group" -> task[n].item > ucfg.groups
      [] n = "coin" -> ~ucfg.coin_uid \/ task[n].item > CoinCalls

StartOver == upc \in {"returned", "reported", "msg_raised"}

\* C17: start never ends by the exception of a sub-task (it raises only
\* when its medal fetch does, before any sub-task exists); when start is
\* over, every sub-task it launched has run to its end, by return or by its
\* own exception, and a sub-task that returned has gone through all of its
\* items; and the account's run stops nowhere but in its report phase.
C17_SubTaskFailureLeavesSiblingsRunning ==
    /\ upc = "raised" => Launched(task) = {}
    /\ StartOver =>
           \A n \in Launched(task) : task[n].status \in {"done", "failed"}
    /\ \A n \in TaskNames : task[n].status = "done" => AtEnd(n)
    /\ ~ENABLED NextUser => upc \in {"reported", "msg_raised"}

\* The like task ended by an exception; the heartbeat, comment and group
\* tasks went through their items and the account reported.
C17_Witness ==
    /\ upc = "reported"
    /\ task["like"].status = "failed"
    /\ \A n \in {"heartbeat", "danmaku", "group"} :
          task[n].status = "done" /\ AtEnd(n)
    /\ ucfg.need_do > 0 /\ ucfg.no_living > 0 /\ ucfg.groups > 0

\* C24: the like, heartbeat, comment and group tasks execute concurrently
\* with the coin run: while the coin run is in progress, every coroutine
\* that start created is running.
C24_SubTasksRunDuringCoinRun ==
    (upc = "coin" /\ task["coin"].status = "running") =>
        \A n \in Launched(task) : task[n].status = "running"

\* C20: no sub-task call of the account is issued once one of its sub-task
\* calls has failed with TOKEN_ERROR.
C20_NoRequestAfterTokenError == ~requested_after_token

\* start 158-166: the coroutines that are handed one of the medal lists.
Readers == {"like", "heartbeat", "danmaku"}

\* get_medals 122-131 has run: from start 151, before any coroutine
\* exists, or from send_msg 187 in the report phase.
MedalListsReplaced ==
    \/ upc = "start" /\ upc' = "coin"
    \/ upc \in {"returned", "raised"} /\ upc' \in {"reported", "msg_raised"}

\* C34: a step in which get_medals clears and replaces the account's medal
\* lists is never taken while a sub-task that was handed one of the lists
\* is running.
C34_ListsNotReplacedUnderReader ==
    [][MedalListsReplaced =>
          \A n \in Readers : task[n].status # "running"]_vars

\* The report phase replaced the lists after all three readers had run.
C34_Witness ==
    /\ upc = "reported"
    /\ \A n \in Readers : task[n].status \in {"done", "failed"}
    /\ \E n \in Readers : task[n].status = "failed"


(***************************************************************************)
(* Properties of the like, heartbeat and comment loops (SpecLoop)          *)
(***************************************************************************)
\* The requests of the log made for medal m through api.
CallsFor(api, m) ==
    SelectSeq(llog, LAMBDA q : q.api = api /\ q.medal = m)

LastReply == IF llog = <<>> THEN "none" ELSE llog[Len(llog)].reply

\* C21: after sendDanmaku answered the duplicate-comment condition for a
\* medal, no later comment goes to that medal; and right after that answer
\* the loop has not failed and stands at the first call of the next medal.
C21_DuplicateEndsTargetOnly ==
    service = "danmaku" =>
        /\ \A k, l \in 1..Len(llog) :
              (k < l /\ llog[k].reply = "duplicate"
                     /\ llog[l].medal = llog[k].medal)
              => llog[l].api # "sendDanmaku"
        /\ LastReply = "duplicate" =>
              /\ lpos.status \in {"running", "done"}
              /\ lpos.item = IndexOf(lmedals, llog[Len(llog)].medal) + 1
              /\ lpos.rep = FirstRound(service, lcfg)

\* The first comment to the first medal was a duplicate; the second medal
\* then got all its comments and the loop returned.
C21_Witness ==
    /\ service = "danmaku"
    /\ lpos.status = "done"
    /\ Len(lmedals) = 2
    /\ Len(CallsFor("sendDanmaku", lmedals[1])) = 1
    /\ CallsFor("sendDanmaku", lmedals[1])[1].reply = "duplicate"
    /\ Len(CallsFor("sendDanmaku", lmedals[2])) = DanmakuNum
    /\ success_count = 1

\* C22: the heartbeats are issued medal by medal in the order of the list;
\* every heartbeat but the last one issued has been answered, so at most one
\* is in flight; a medal gets at most WATCHINGLIVE heartbeats, and once the
\* loop has returned a medal none of whose heartbeats failed got exactly
\* that many.
C22_WatchLoopSequential ==
    service = "heartbeat" =>
        /\ Cardinality(Pending(llog)) <= 1
        /\ \A k, l \in 1..Len(llog) :
              k < l =>
                 /\ llog[k].reply # "pending"
                 /\ IndexOf(lmedals, llog[k].medal)
                       <= IndexOf(lmedals, llog[l].medal)
        /\ \A m \in Range(lmedals) :
              /\ Len(CallsFor("heartbeat", m)) <= WatchTime
              /\ (lpos.status = "done"
                  /\ \A k \in 1..Len(llog) :
                        llog[k].medal = m => llog[k].reply = "ok")
                 => Len(CallsFor("heartbeat", m)) = WatchTime

\* The first heartbeat of the first medal failed, which ended that medal's
\* watching; the second medal then got every minute.
C22_Witness ==
    /\ service = "heartbeat"
    /\ lpos.status = "done"
    /\ Len(lmedals) = 2
    /\ Len(CallsFor("heartbeat", lmedals[1])) = 1
    /\ llog[1].reply = "error"
    /\ Len(CallsFor("heartbeat", lmedals[2])) = WatchTime
    /\ WatchTime > 1

\* C28: a failed like call does not keep the loop from the other like
\* calls: when the loop has ended and every call is answered, each medal
\* has got the full count of like calls.
C28_LikeLoopGoesOnAfterFailure ==
    (service = "like" /\ lpos.status \in {"done", "failed"}
                      /\ Awaited(llog)) =>
        \A m \in Range(lmedals) :
            Len(CallsFor("likeInteractV3", m)) = LikeTimes

\* C29: a failure of wearMedal or of a comment keeps no later medal from
\* being processed: when the loop has ended, every medal of the list has
\* had a call made for it.
C29_CommentLoopReachesEveryTarget ==
    (service = "danmaku" /\ lpos.status \in {"done", "failed"}) =>
        \A m \in Range(lmedals) : \E k \in 1..Len(llog) : llog[k].medal = m

====
